---------------------------- MODULE Spec2Model ----------------------------
(***************************************************************************)
(* SubCreater: the tag line parser (core/parser.py), the entry renderer    *)
(* with its layout and effect compositor (core/renderer.py) and the batch  *)
(* loop (main.py), as state machines.                                      *)
(*                                                                         *)
(* Text is a sequence of one-character strings, so that strip(), the tag   *)
(* regular expression and the "ch" suffix test are computed character by   *)
(* character as the code computes them.  Python's None is the value None   *)
(* below, a sequence no text is equal to.                                  *)
(***************************************************************************)
EXTENDS Integers, Sequences, FiniteSets, TLC

(***************************************************************************)
(* Bounds of the model.                                                    *)
(***************************************************************************)
\* The longest script, in lines.
MaxLines == 3

(***************************************************************************)
(* Characters and text.                                                    *)
(***************************************************************************)
None == <<"None">>

\* Python truthiness of an Optional[str]: None and "" are falsy.
Truthy(v) == v # None /\ v # <<>>

\* The whitespace class of str.strip(); " " stands for every such character.
IsSpace(c) == c = " "

RECURSIVE lstrip(_)
lstrip(s) == IF s # <<>> /\ IsSpace(Head(s)) THEN lstrip(Tail(s)) ELSE s

RECURSIVE rstrip(_)
rstrip(s) ==
    IF s # <<>> /\ IsSpace(s[Len(s)]) THEN rstrip(SubSeq(s, 1, Len(s) - 1)) ELSE s

strip(s) == rstrip(lstrip(s))

\* str.endswith
endswith(s, suffix) ==
    /\ Len(s) >= Len(suffix)
    /\ SubSeq(s, Len(s) - Len(suffix) + 1, Len(s)) = suffix

\* The translation marker of a tag.
ch == <<"c", "h">>

\* re.match(r"\[([^\]]+)\](.*)", line): the line starts with "[", and the run
\* of characters other than "]" that follows is not empty and ends at a "]".
\* Group 1 is that run, group 2 the rest of the line.
FirstClose(line) ==
    IF \E k \in 1..Len(line) : line[k] = "]"
    THEN CHOOSE k \in 1..Len(line) :
            /\ line[k] = "]"
            /\ \A j \in 1..(k - 1) : line[j] # "]"
    ELSE 0

re_match(line) ==
    LET k == FirstClose(line)
    IN  IF Len(line) >= 1 /\ line[1] = "[" /\ k >= 3
        THEN [ok |-> TRUE,
              group1 |-> SubSeq(line, 2, k - 1),
              group2 |-> SubSeq(line, k + 1, Len(line))]
        ELSE [ok |-> FALSE]


\* parse_subtitle_line: None (ParsedNone) for a blank or non-conforming line or
\* one whose text is empty, else (base_tag, full_tag, text, is_translation).
ParsedNone == [ok |-> FALSE]

is_translation_of(full_tag) == endswith(full_tag, ch)

\* Fault variant: the "ch" suffix is not removed from the base tag.
base_tag_of_keep_suffix(full_tag) == full_tag

base_tag_of(full_tag) ==
    IF is_translation_of(full_tag)
    THEN SubSeq(full_tag, 1, Len(full_tag) - 2)
    ELSE full_tag

parse_subtitle_line(raw) ==
    LET line == strip(raw)
        m == re_match(line)
    IN  IF line = <<>> THEN ParsedNone
        ELSE IF ~m.ok THEN ParsedNone
        ELSE IF strip(m.group2) = <<>> THEN ParsedNone
        ELSE [ok |-> TRUE,
              base_tag |-> base_tag_of(m.group1),
              full_tag |-> m.group1,
              text |-> strip(m.group2),
              is_translation |-> is_translation_of(m.group1)]

(***************************************************************************)
(* The scripts the parser is run on: every sequence of at most MaxLines    *)
(* lines of ScriptLines.                                                   *)
(***************************************************************************)
MkLine(tag, text) == <<"[">> \o tag \o <<"]">> \o text

Tags == {<<"a">>, <<"b">>, ch, <<"a">> \o ch, ch \o ch}

Texts == {<<"x">>, <<" ", "y">>}

TaggedLines == {MkLine(tag, text) : tag \in Tags, text \in Texts}

\* A blank line, a line with no tag, a tag with no text, an empty tag.
OtherLines == {<<" ">>, <<"x">>, <<"[", "a", "]">>, <<"[", "]", "x">>}

ScriptLines == TaggedLines \cup OtherLines

Scripts == UNION {[1..n -> ScriptLines] : n \in 0..MaxLines}

(***************************************************************************)
(* State.                                                                  *)
(***************************************************************************)
VARIABLES
    \* parse_subtitle_file
    file_exists,            \* whether open(filepath) finds the file
    lines,                  \* the lines of the file, in order
    line_number,            \* enumerate(f, 1): lines consumed so far
    subtitles,              \* the list being built
    last_base_tag,
    temp_original_text,
    temp_full_tag_original,
    warnings,               \* line numbers of the printed orphan warnings
    ppc,                    \* "idle", "open", "loop", "done"
    read_failed,            \* an exception was raised in the try block
    result,                 \* the returned list (None until the return)
    \* history of the parse: the line each pending original and each entry
    \* was read from
    pending_line,
    entry_lines,
    \* process-wide state and the environment of the renderer
    DEFAULT_SETTINGS,       \* the module-level settings dict of renderer.py
    fonts_loadable,         \* the font paths ImageFont.truetype can load
    font_metrics,           \* the font back end: font path -> glyph metrics
    files,                  \* the output directory: file name -> saved canvas
    \* draw_text_with_effects
    c_call,                 \* its arguments (and the role it is called for)
    canvas,                 \* the draw operations made on the image, in order
    cpc,                    \* "idle", "outline", "shadow", "fill", "returned",
                            \* "raised"
    \* render_subtitle_image
    r_call,                 \* its arguments
    current_settings,
    img_size,
    font_original,
    font_translation,
    comp_calls,             \* the calls of draw_text_with_effects it made
    r_warnings,             \* the warnings it printed
    rpc,                    \* "idle", "start", "layout", "draw_original",
                            \* "draw_translation", "save", "done"
    r_ret,                  \* its return value: the path, or None
    \* process_subtitles
    custom_settings,        \* the caller's settings dict
    parsed_entries,
    render_settings,
    entry_index,            \* entries of the loop already dealt with
    rendered,               \* the entries render_subtitle_image was called for
    reports,                \* the outcome printed for each entry
    bpc,                    \* "idle", "start", "parsing", "loop", "rendering",
                            \* "done"
    \* the process that imports the modules and calls their functions
    spc,                    \* "idle", "ready", "rendering", "batch"
    render_log,             \* the calls of render_subtitle_image the process
                            \* made itself, each with its outcome and canvas
    s_ops,                  \* calls the process has made
    \* the window of gui.py
    gui_settings,           \* self.current_settings
    label_drawn,            \* the preview label has got its size
    after_pending,          \* update_preview calls scheduled with root.after
    label_image,            \* the image option of the preview label: the
                            \* settings its image was computed from
    label_text,             \* the text option of the preview label
    gpc,                    \* "idle", "running"
    \* the generation run of gui.py
    subtitle_file_path,     \* the script chosen in the window ("" if none)
    generate_button,        \* the state option of the button
    status_label,           \* the text option of the status label
    workers,                \* the threads started for generate_images_task
    after_queue             \* the callbacks posted with root.after(0, ...)

parserVars == <<file_exists, lines, line_number, subtitles, last_base_tag,
                temp_original_text, temp_full_tag_original, warnings, ppc,
                read_failed, result, pending_line, entry_lines>>

envVars == <<DEFAULT_SETTINGS, fonts_loadable, font_metrics, files>>

compositorVars == <<c_call, canvas, cpc>>

rendererVars == <<r_call, current_settings, img_size, font_original,
                  font_translation, comp_calls, r_warnings, rpc, r_ret>>

batchVars == <<custom_settings, parsed_entries, render_settings, entry_index,
               rendered, reports, bpc>>

sessionVars == <<spc, render_log, s_ops>>

guiVars == <<gui_settings, label_drawn, after_pending, label_image,
             label_text, gpc>>

genVars == <<subtitle_file_path, generate_button, status_label, workers,
             after_queue>>

vars == <<parserVars, envVars, compositorVars, rendererVars, batchVars,
          sessionVars, guiVars, genVars>>

\* What parse_subtitle_file does not touch.
notParserVars ==
    <<envVars, compositorVars, rendererVars, batchVars, sessionVars, guiVars, genVars>>

(***************************************************************************)
(* parse_subtitle_file                                                     *)
(***************************************************************************)
\* The three locals set at lines 58-61.
ParserLocalsInit ==
    /\ line_number = 0
    /\ subtitles = <<>>
    /\ last_base_tag = None
    /\ temp_original_text = None
    /\ temp_full_tag_original = None
    /\ warnings = <<>>
    /\ read_failed = FALSE
    /\ result = None
    /\ pending_line = 0
    /\ entry_lines = <<>>

\* The guard of the three flushes: the pending slot is occupied.
PendingOccupied ==
    Truthy(temp_original_text) /\ Truthy(last_base_tag)
        /\ Truthy(temp_full_tag_original)

\* Fault variant: an empty base tag matches whatever is pending.
MatchesPending_empty_tag_matches(base_tag) ==
    /\ Truthy(temp_original_text)
    /\ (last_base_tag = base_tag \/ base_tag = <<>>)
    /\ Truthy(temp_full_tag_original)

\* Fault variant: the pairing branch does not compare the base tags.
MatchesPending_any_tag(base_tag) ==
    Truthy(temp_original_text) /\ Truthy(temp_full_tag_original)

\* The guard of the pairing branch.
MatchesPending(base_tag) ==
    Truthy(temp_original_text) /\ last_base_tag = base_tag
        /\ Truthy(temp_full_tag_original)

StandaloneEntry ==
    [id |-> last_base_tag,
     full_tag_original |-> temp_full_tag_original,
     original_text |-> temp_original_text,
     translated_text |-> None,
     full_tag_translation |-> None]

\* Fault variant: the id of a pair is the tag of its translation line.
PairedEntry_id_of_translation(base_tag, full_tag, text) ==
    [id |-> full_tag,
     full_tag_original |-> temp_full_tag_original,
     original_text |-> temp_original_text,
     translated_text |-> text,
     full_tag_translation |-> full_tag]

PairedEntry(base_tag, full_tag, text) ==
    [id |-> base_tag,
     full_tag_original |-> temp_full_tag_original,
     original_text |-> temp_original_text,
     translated_text |-> text,
     full_tag_translation |-> full_tag]

\* list.append, applied to subtitles and to its history entry_lines alike.
\* Fault variant: insert(0, item).
list_prepend(list, item) == <<item>> \o list

list_append(list, item) == Append(list, item)

\* subtitles after the flush of a pending original, if there is one.
FlushPending ==
    IF PendingOccupied
    THEN list_append(subtitles, StandaloneEntry)
    ELSE subtitles

FlushPendingLines ==
    IF PendingOccupied
    THEN list_append(entry_lines, [orig |-> pending_line, trans |-> 0])
    ELSE entry_lines

ClearPending ==
    /\ temp_original_text' = None
    /\ last_base_tag' = None
    /\ temp_full_tag_original' = None
    /\ pending_line' = 0

KeepPending ==
    UNCHANGED <<temp_original_text, last_base_tag, temp_full_tag_original,
                pending_line>>

\* The line the loop is about to read.
CurLine == lines[line_number + 1]

InLoop == ppc = "loop" /\ line_number < Len(lines)

\* open() raises FileNotFoundError: lines 144-146.
OpenMissing ==
    /\ ppc = "open"
    /\ ~file_exists
    /\ read_failed' = TRUE
    /\ result' = <<>>
    /\ ppc' = "done"
    /\ UNCHANGED notParserVars
    /\ UNCHANGED <<file_exists, lines, line_number, subtitles, warnings,
                   entry_lines>>
    /\ KeepPending

OpenFile ==
    /\ ppc = "open"
    /\ file_exists
    /\ ppc' = "loop"
    /\ UNCHANGED notParserVars
    /\ UNCHANGED <<file_exists, lines, line_number, subtitles, warnings,
                   read_failed, result, entry_lines>>
    /\ KeepPending

\* Fault variant: the handler returns what was parsed so far.
ReadError_partial ==
    /\ InLoop
    /\ read_failed' = TRUE
    /\ result' = subtitles
    /\ ppc' = "done"
    /\ UNCHANGED notParserVars
    /\ UNCHANGED <<file_exists, lines, line_number, subtitles, warnings,
                   entry_lines>>
    /\ KeepPending

\* Reading or decoding the next line raises: lines 147-149.
ReadError ==
    /\ InLoop
    /\ read_failed' = TRUE
    /\ result' = <<>>
    /\ ppc' = "done"
    /\ UNCHANGED notParserVars
    /\ UNCHANGED <<file_exists, lines, line_number, subtitles, warnings,
                   entry_lines>>
    /\ KeepPending

\* Fault variant: the pending original is dropped, not flushed.
LineNoMatch_drops_pending ==
    /\ InLoop
    /\ ~parse_subtitle_line(CurLine).ok
    /\ line_number' = line_number + 1
    /\ IF PendingOccupied THEN ClearPending ELSE KeepPending
    /\ UNCHANGED notParserVars
    /\ UNCHANGED <<file_exists, lines, subtitles, entry_lines, warnings, ppc,
                   read_failed, result>>

\* A blank or non-conforming line: lines 68-81.
LineNoMatch ==
    /\ InLoop
    /\ ~parse_subtitle_line(CurLine).ok
    /\ line_number' = line_number + 1
    /\ subtitles' = FlushPending
    /\ entry_lines' = FlushPendingLines
    /\ IF PendingOccupied THEN ClearPending ELSE KeepPending
    /\ UNCHANGED notParserVars
    /\ UNCHANGED <<file_exists, lines, warnings, ppc, read_failed, result>>

\* Fault variant: the new original overwrites the pending one, which is lost.
LineOriginal_no_flush ==
    /\ InLoop
    /\ LET p == parse_subtitle_line(CurLine)
       IN  /\ p.ok
           /\ ~p.is_translation
           /\ temp_original_text' = p.text
           /\ last_base_tag' = p.base_tag
           /\ temp_full_tag_original' = p.full_tag
    /\ pending_line' = line_number + 1
    /\ line_number' = line_number + 1
    /\ UNCHANGED notParserVars
    /\ UNCHANGED <<file_exists, lines, subtitles, entry_lines, warnings, ppc,
                   read_failed, result>>

\* An original line: lines 85-100.
LineOriginal ==
    /\ InLoop
    /\ LET p == parse_subtitle_line(CurLine)
       IN  /\ p.ok
           /\ ~p.is_translation
           /\ subtitles' = FlushPending
           /\ entry_lines' = FlushPendingLines
           /\ temp_original_text' = p.text
           /\ last_base_tag' = p.base_tag
           /\ temp_full_tag_original' = p.full_tag
    /\ pending_line' = line_number + 1
    /\ line_number' = line_number + 1
    /\ UNCHANGED notParserVars
    /\ UNCHANGED <<file_exists, lines, warnings, ppc, read_failed, result>>

\* A translation line that matches the pending original: lines 101-114.
LineTranslationPaired ==
    /\ InLoop
    /\ LET p == parse_subtitle_line(CurLine)
       IN  /\ p.ok
           /\ p.is_translation
           /\ MatchesPending(p.base_tag)
           /\ subtitles' =
                list_append(subtitles,
                            PairedEntry(p.base_tag, p.full_tag, p.text))
    /\ entry_lines' =
         list_append(entry_lines,
                     [orig |-> pending_line, trans |-> line_number + 1])
    /\ ClearPending
    /\ line_number' = line_number + 1
    /\ UNCHANGED notParserVars
    /\ UNCHANGED <<file_exists, lines, warnings, ppc, read_failed, result>>

\* Fault variant: the orphan is kept as an entry of its own (the alternative
\* left commented out at lines 124-130).
LineTranslationOrphan_kept ==
    /\ InLoop
    /\ LET p == parse_subtitle_line(CurLine)
       IN  /\ p.ok
           /\ p.is_translation
           /\ ~MatchesPending(p.base_tag)
           /\ subtitles' =
                list_append(subtitles,
                            [id |-> p.base_tag,
                             full_tag_original |-> p.full_tag,
                             original_text |-> p.text,
                             translated_text |-> None,
                             full_tag_translation |-> None])
    /\ entry_lines' =
         list_append(entry_lines, [orig |-> line_number + 1, trans |-> 0])
    /\ warnings' = Append(warnings, line_number + 1)
    /\ line_number' = line_number + 1
    /\ KeepPending
    /\ UNCHANGED notParserVars
    /\ UNCHANGED <<file_exists, lines, ppc, read_failed, result>>

\* Fault variant: the orphan empties the pending slot.
LineTranslationOrphan_clears_pending ==
    /\ InLoop
    /\ LET p == parse_subtitle_line(CurLine)
       IN  /\ p.ok
           /\ p.is_translation
           /\ ~MatchesPending(p.base_tag)
    /\ warnings' = Append(warnings, line_number + 1)
    /\ line_number' = line_number + 1
    /\ ClearPending
    /\ UNCHANGED notParserVars
    /\ UNCHANGED <<file_exists, lines, subtitles, entry_lines, ppc,
                   read_failed, result>>

\* An orphaned translation line: lines 115-132.
LineTranslationOrphan ==
    /\ InLoop
    /\ LET p == parse_subtitle_line(CurLine)
       IN  /\ p.ok
           /\ p.is_translation
           /\ ~MatchesPending(p.base_tag)
    /\ warnings' = Append(warnings, line_number + 1)
    /\ line_number' = line_number + 1
    /\ KeepPending
    /\ UNCHANGED notParserVars
    /\ UNCHANGED <<file_exists, lines, subtitles, entry_lines, ppc,
                   read_failed, result>>

\* Fault variant: the pending original is not flushed after the loop.
EndOfInput_no_flush ==
    /\ ppc = "loop"
    /\ line_number = Len(lines)
    /\ result' = subtitles
    /\ ppc' = "done"
    /\ KeepPending
    /\ UNCHANGED notParserVars
    /\ UNCHANGED <<file_exists, lines, line_number, subtitles, entry_lines,
                   warnings, read_failed>>

\* The iterator is exhausted: lines 134-142 and the return at line 151.
EndOfInput ==
    /\ ppc = "loop"
    /\ line_number = Len(lines)
    /\ subtitles' = FlushPending
    /\ entry_lines' = FlushPendingLines
    /\ result' = FlushPending
    /\ ppc' = "done"
    /\ KeepPending
    /\ UNCHANGED notParserVars
    /\ UNCHANGED <<file_exists, lines, line_number, warnings, read_failed>>

ParserStep ==
    \/ OpenMissing
    \/ OpenFile
    \/ ReadError
    \/ LineNoMatch
    \/ LineOriginal
    \/ LineTranslationPaired
    \/ LineTranslationOrphan
    \/ EndOfInput

(***************************************************************************)
(* Settings, fonts and the font back end.                                  *)
(***************************************************************************)
\* dict.get(key, default)
Get(d, key, default) == IF key \in DOMAIN d THEN d[key] ELSE default

\* d.copy() followed by d.update(over)
Merge(d, over) ==
    [k \in (DOMAIN d) \cup (DOMAIN over) |->
        IF k \in DOMAIN over THEN over[k] ELSE d[k]]

\* {} (and a settings argument of None, which is used the same way)
EmptyDict == [k \in {} |-> 0]

\* The literal DEFAULT_SETTINGS is bound to at import.
DefaultSettings ==
    [resolution |-> "1080p",
     font_path_original |-> "arial.ttf",
     font_size_original |-> 60,
     font_color_original |-> <<255, 255, 0, 255>>,
     font_path_translation |-> "arial.ttf",
     font_size_translation |-> 40,
     font_color_translation |-> <<220, 220, 220, 255>>,
     text_align |-> "center",
     position_y_offset |-> -100,
     line_spacing |-> 10,
     custom_x_original |-> 640,
     custom_y_original |-> 800,
     custom_x_translation |-> 640,
     custom_y_translation |-> 880,
     output_directory |-> "output_images",
     effects_original |->
        [shadow_on |-> TRUE,
         shadow_offset_x |-> 3,
         shadow_offset_y |-> 3,
         shadow_color |-> <<0, 0, 0, 128>>,
         outline_on |-> TRUE,
         outline_width |-> 2,
         outline_color |-> <<0, 0, 0, 255>>,
         gradient_on |-> FALSE,
         gradient_color_start |-> <<255, 105, 180, 255>>,
         gradient_color_end |-> <<255, 255, 255, 255>>,
         gradient_direction |-> "vertical"],
     effects_translation |->
        [shadow_on |-> TRUE,
         shadow_offset_x |-> 2,
         shadow_offset_y |-> 2,
         shadow_color |-> <<0, 0, 0, 128>>,
         outline_on |-> TRUE,
         outline_width |-> 1,
         outline_color |-> <<0, 0, 0, 255>>,
         gradient_on |-> FALSE,
         gradient_color_start |-> <<200, 200, 200, 255>>,
         gradient_color_end |-> <<250, 250, 250, 255>>,
         gradient_direction |-> "vertical"]]

RESOLUTIONS == ("720p" :> <<1280, 720>>) @@ ("1080p" :> <<1920, 1080>>)

\* The font files of the model: one the settings may name, and the two
\* fallbacks of get_font.
FontPaths == {"custom.ttf", "arial.ttf", "DejaVuSans.ttf"}

\* get_font: the configured path, then arial.ttf, then DejaVuSans.ttf; the
\* first that loads, else the IOError is raised (ok = FALSE).
FontChain(font_path) == <<font_path, "arial.ttf", "DejaVuSans.ttf">>

\* Fault variant: the second fallback is tried before arial.ttf.
get_font_dejavu_first(font_path, font_size) ==
    LET chain == <<font_path, "DejaVuSans.ttf", "arial.ttf">>
        hits == {i \in 1..Len(chain) : chain[i] \in fonts_loadable}
    IN  IF hits = {}
        THEN [ok |-> FALSE, path |-> "", size |-> font_size]
        ELSE [ok |-> TRUE,
              path |-> chain[CHOOSE i \in hits : \A j \in hits : i <= j],
              size |-> font_size]

get_font(font_path, font_size) ==
    LET chain == FontChain(font_path)
        hits == {i \in 1..Len(chain) : chain[i] \in fonts_loadable}
    IN  IF hits = {}
        THEN [ok |-> FALSE, path |-> "", size |-> font_size]
        ELSE [ok |-> TRUE,
              path |-> chain[CHOOSE i \in hits : \A j \in hits : i <= j],
              size |-> font_size]

\* The glyph metrics a font back end may give a font: the ink box of a run of
\* n glyphs starts at (l, t) from the pen origin and is n * cw wide, h high.
GlyphMetrics ==
    {[l |-> 0, t |-> 0, cw |-> 50, h |-> 20],
     [l |-> 1, t |-> 3, cw |-> 5, h |-> 1],
     [l |-> 0, t |-> 4, cw |-> 0, h |-> 20]}

\* draw.textbbox((0, 0), text, font=font): (left, top, right, bottom).
textbbox(text, font) ==
    IF text = <<>>
    THEN <<0, 0, 0, 0>>
    ELSE LET m == font_metrics[font.path]
         IN  <<m.l, m.t, m.l + m.cw * Len(text), m.t + m.h>>

(***************************************************************************)
(* draw_text_with_effects                                                  *)
(***************************************************************************)
Abs(n) == IF n < 0 THEN -n ELSE n

Max(a, b) == IF a >= b THEN a ELSE b

\* Fault variant: the circular outline of the comment at line 101.
OutlineQualifies_circular(dx, dy, W) ==
    dx * dx + dy * dy <= W * W

\* The condition of lines 102-104 on an offset of the outline loops.
OutlineQualifies(dx, dy, W) ==
    \/ Abs(dx) = W
    \/ Abs(dy) = W
    \/ (Abs(dx) < W /\ Abs(dy) < W /\ dx * dx + dy * dy >= (W - 1) * (W - 1))

\* The offsets the two loops of lines 99-105 stamp at, in loop order.
OutlineOffsets(W) ==
    LET N == 2 * W + 1
        all == [n \in 1..(N * N) |-> <<((n - 1) \div N) - W, ((n - 1) % N) - W>>]
    IN  SelectSeq(all, LAMBDA o : OutlineQualifies(o[1], o[2], W))

\* A colour given with 3 channels gets the alpha of its layer.
WithAlpha(c, alpha) == IF Len(c) = 3 THEN Append(c, alpha) ELSE c

\* The colours ImageDraw accepts on an RGBA image.
ValidInk(c) == Len(c) \in {3, 4}

\* draw.text(xy, text, font, fill) on the image
TextOp(layer, x, y, color) ==
    [role |-> c_call.role, layer |-> layer, x |-> x, y |-> y,
     color |-> color, w |-> 0, h |-> 0, rows |-> <<>>]

\* main_image_obj.paste(gradient_image.im, box, mask_image.im)
PasteOp(x, y, w, h, rows) ==
    [role |-> c_call.role, layer |-> "fill", x |-> x, y |-> y,
     color |-> <<>>, w |-> w, h |-> h, rows |-> rows]

OutlineOn ==
    /\ Get(c_call.effects, "outline_on", FALSE)
    /\ Get(c_call.effects, "outline_width", 0) > 0

OutlineColor == WithAlpha(Get(c_call.effects, "outline_color", <<0, 0, 0, 255>>), 255)

OutlineStamps ==
    LET offs == OutlineOffsets(c_call.effects.outline_width)
    IN  [n \in 1..Len(offs) |->
            TextOp("outline", c_call.position[1] + offs[n][1],
                   c_call.position[2] + offs[n][2], OutlineColor)]

ShadowOffset ==
    <<Get(c_call.effects, "shadow_offset_x", 0),
      Get(c_call.effects, "shadow_offset_y", 0)>>

ShadowOn ==
    /\ Get(c_call.effects, "shadow_on", FALSE)
    /\ (ShadowOffset[1] # 0 \/ ShadowOffset[2] # 0)

ShadowColor == WithAlpha(Get(c_call.effects, "shadow_color", <<0, 0, 0, 128>>), 128)

GradientOn == Get(c_call.effects, "gradient_on", FALSE)

GradientStart ==
    WithAlpha(Get(c_call.effects, "gradient_color_start", <<255, 0, 0, 255>>), 255)

GradientEnd ==
    WithAlpha(Get(c_call.effects, "gradient_color_end", <<0, 0, 255, 255>>), 255)

\* The ink box of the run: lines 137-150.
InkBox == textbbox(c_call.text, c_call.font)

InkWidth == InkBox[3] - InkBox[1]

InkHeight == InkBox[4] - InkBox[2]

\* The gradient returns without drawing: lines 152-153.
InkEmpty == InkWidth <= 0 \/ InkHeight <= 0

\* Fault variant: the ratio is i / H.
GradientChannel_ratio_by_height(cs, ce, i, H) ==
    (cs * (H - i) + ce * i) \div H

\* int(start * (1 - ratio) + end * ratio) with ratio = i / max(1, H - 1), in
\* exact arithmetic (the channels are not negative). The float arithmetic of
\* the code gives the same values for the colours and ink heights used here;
\* for others it can leave a row between the first and the last one below.
GradientChannel(cs, ce, i, H) ==
    LET D == Max(1, H - 1)
    IN  (cs * (D - i) + ce * i) \div D

\* The colour of each scanline of the gradient image: lines 165-171.
GradientRows ==
    [n \in 1..InkHeight |->
        [c \in 1..4 |->
            GradientChannel(GradientStart[c], GradientEnd[c], n - 1, InkHeight)]]

\* The draw of a stage raises: a colour of the stage is no RGB(A) tuple.
StageRaises(stage) ==
    CASE stage = "outline" -> OutlineOn /\ ~ValidInk(OutlineColor)
      [] stage = "shadow" -> ShadowOn /\ ~ValidInk(ShadowColor)
      [] stage = "fill" ->
            IF GradientOn
            THEN ~InkEmpty /\ (~ValidInk(GradientStart) \/ ~ValidInk(GradientEnd))
            ELSE ~ValidInk(c_call.fill_color)
      [] OTHER -> FALSE

notCompositorVars ==
    <<parserVars, envVars, rendererVars, batchVars, sessionVars, guiVars, genVars>>

\* Lines 91-105.
CompOutline ==
    /\ cpc = "outline"
    /\ ~StageRaises("outline")
    /\ canvas' = IF OutlineOn THEN canvas \o OutlineStamps ELSE canvas
    /\ cpc' = "shadow"
    /\ UNCHANGED <<c_call, notCompositorVars>>

\* Lines 107-117.
CompShadow ==
    /\ cpc = "shadow"
    /\ ~StageRaises("shadow")
    /\ canvas' =
         IF ShadowOn
         THEN Append(canvas,
                     TextOp("shadow", c_call.position[1] + ShadowOffset[1],
                            c_call.position[2] + ShadowOffset[2], ShadowColor))
         ELSE canvas
    /\ cpc' = "fill"
    /\ UNCHANGED <<c_call, notCompositorVars>>

\* Lines 119-192: the gradient fill (or its early return), else the solid
\* fill.
CompFill ==
    /\ cpc = "fill"
    /\ ~StageRaises("fill")
    /\ canvas' =
         IF GradientOn
         THEN IF InkEmpty
              THEN canvas
              ELSE Append(canvas,
                          PasteOp(c_call.position[1] + InkBox[1],
                                  c_call.position[2] + InkBox[2],
                                  InkWidth, InkHeight, GradientRows))
         ELSE Append(canvas,
                     TextOp("fill", c_call.position[1], c_call.position[2],
                            c_call.fill_color))
    /\ cpc' = "returned"
    /\ UNCHANGED <<c_call, notCompositorVars>>

\* A draw call of the current stage raises; the exception leaves the function.
CompRaises ==
    /\ cpc \in {"outline", "shadow", "fill"}
    /\ StageRaises(cpc)
    /\ cpc' = "raised"
    /\ UNCHANGED <<c_call, canvas, notCompositorVars>>

CompositorStep ==
    \/ CompOutline
    \/ CompShadow
    \/ CompFill
    \/ CompRaises

(***************************************************************************)
(* render_subtitle_image                                                   *)
(***************************************************************************)
\* The return value: None, or the path of the saved image.
RetNone == [ok |-> FALSE]

RetPath(path) == [ok |-> TRUE, path |-> path]

\* int() of a float that is n2 / 2: truncation toward zero.
py_int_half(n2) == IF n2 >= 0 THEN n2 \div 2 ELSE -((-n2) \div 2)

\* Fault variant: the text height is not subtracted.
PilY_no_height(img_height, user_y_bottom_edge, text_height) ==
    img_height - user_y_bottom_edge

\* Lines 245 and 275: the top edge of the text, from its bottom edge counted
\* from the bottom of the image.
PilY(img_height, user_y_bottom_edge, text_height) ==
    img_height - user_y_bottom_edge - text_height

\* Fault variant: an unknown alignment is placed as center.
PilX2_unknown_as_center(align_mode, user_x, text_width) ==
    CASE align_mode = "left" -> 2 * user_x
      [] align_mode = "center" -> 2 * user_x - text_width
      [] align_mode = "right" -> 2 * (user_x - text_width)
      [] OTHER -> 2 * user_x - text_width

\* Fault variant: centring subtracts the whole width.
PilX2_center_full(align_mode, user_x, text_width) ==
    CASE align_mode = "left" -> 2 * user_x
      [] align_mode = "center" -> 2 * (user_x - text_width)
      [] align_mode = "right" -> 2 * (user_x - text_width)
      [] OTHER -> 2 * user_x

\* Lines 248-256 and 278-286: the left edge of the text, as twice its value
\* (centring halves the width, so the value is a multiple of 1/2).
PilX2(align_mode, user_x, text_width) ==
    CASE align_mode = "left" -> 2 * user_x
      [] align_mode = "center" -> 2 * user_x - text_width
      [] align_mode = "right" -> 2 * (user_x - text_width)
      [] OTHER -> 2 * user_x

KnownAlign(align_mode) == align_mode \in {"left", "center", "right"}

RoleText(role) ==
    IF role = "original" THEN r_call.original_text ELSE r_call.translated_text

RoleFont(role) == IF role = "original" THEN font_original ELSE font_translation

RoleAnchor(role) ==
    IF role = "original"
    THEN <<Get(current_settings, "custom_x_original", 0),
           Get(current_settings, "custom_y_original", 0)>>
    ELSE <<Get(current_settings, "custom_x_translation", 0),
           Get(current_settings, "custom_y_translation", 0)>>

RoleColor(role) ==
    IF role = "original"
    THEN current_settings.font_color_original
    ELSE current_settings.font_color_translation

RoleEffects(role) ==
    IF role = "original"
    THEN Get(current_settings, "effects_original", EmptyDict)
    ELSE Get(current_settings, "effects_translation", EmptyDict)

\* The position handed to draw_text_with_effects for a role: (int(x), int(y)).
RolePosition(role) ==
    LET bbox == textbbox(RoleText(role), RoleFont(role))
        text_width == bbox[3] - bbox[1]
        text_height == bbox[4] - bbox[2]
    IN  <<py_int_half(PilX2(current_settings.text_align, RoleAnchor(role)[1],
                            text_width)),
          PilY(img_size[2], RoleAnchor(role)[2], text_height)>>

\* The call draw_text_with_effects(draw, text, position, font, color, effects).
CompositorCall(role) ==
    [role |-> role,
     text |-> RoleText(role),
     position |-> RolePosition(role),
     font |-> RoleFont(role),
     fill_color |-> RoleColor(role),
     effects |-> RoleEffects(role)]

NoCompositorCall ==
    [role |-> "none", text |-> <<>>, position |-> <<0, 0>>,
     font |-> [ok |-> FALSE, path |-> "", size |-> 0],
     fill_color |-> <<>>, effects |-> EmptyDict]

NoRenderCall ==
    [original_text |-> <<>>, translated_text |-> None,
     filename_base |-> <<>>, settings |-> EmptyDict]

\* os.path.join(output_dir, f"{filename_base}.png")
OutputPath == [dir |-> current_settings.output_directory, name |-> r_call.filename_base]

notRendererVars ==
    <<parserVars, DEFAULT_SETTINGS, fonts_loadable, font_metrics, batchVars,
      sessionVars, guiVars, genVars>>

\* Lines 213-215 and the start of the try block, 218-223, when the
\* resolution is known and both fonts load.
RenderSetup ==
    /\ rpc = "start"
    /\ LET cs == Merge(DEFAULT_SETTINGS, r_call.settings)
           fo == get_font(cs.font_path_original, cs.font_size_original)
           ft == get_font(cs.font_path_translation, cs.font_size_translation)
       IN  /\ cs.resolution \in DOMAIN RESOLUTIONS
           /\ fo.ok /\ ft.ok
           /\ current_settings' = cs
           /\ img_size' = RESOLUTIONS[cs.resolution]
           /\ font_original' = fo
           /\ font_translation' = ft
    /\ canvas' = <<>>
    /\ rpc' = "layout"
    /\ UNCHANGED <<r_call, comp_calls, r_warnings, r_ret, c_call, cpc, files,
                   notRendererVars>>

\* RESOLUTIONS[...] raises KeyError, caught at lines 315-319.
RenderUnknownResolution ==
    /\ rpc = "start"
    /\ LET cs == Merge(DEFAULT_SETTINGS, r_call.settings)
       IN  /\ cs.resolution \notin DOMAIN RESOLUTIONS
           /\ current_settings' = cs
    /\ r_ret' = RetNone
    /\ rpc' = "done"
    /\ UNCHANGED <<r_call, img_size, font_original, font_translation,
                   comp_calls, r_warnings, c_call, canvas, cpc, files,
                   notRendererVars>>

\* get_font raises for one of the two fonts, caught at lines 312-319.
RenderFontFailure ==
    /\ rpc = "start"
    /\ LET cs == Merge(DEFAULT_SETTINGS, r_call.settings)
           fo == get_font(cs.font_path_original, cs.font_size_original)
           ft == get_font(cs.font_path_translation, cs.font_size_translation)
       IN  /\ cs.resolution \in DOMAIN RESOLUTIONS
           /\ ~(fo.ok /\ ft.ok)
           /\ current_settings' = cs
           /\ img_size' = RESOLUTIONS[cs.resolution]
    /\ canvas' = <<>>
    /\ r_ret' = RetNone
    /\ rpc' = "done"
    /\ UNCHANGED <<r_call, font_original, font_translation, comp_calls,
                   r_warnings, c_call, cpc, files, notRendererVars>>

\* Lines 232-296: both layouts, then the draw of the original text begins.
RenderLayout ==
    /\ rpc = "layout"
    /\ r_warnings' =
         IF KnownAlign(current_settings.text_align)
         THEN r_warnings
         ELSE IF Truthy(r_call.translated_text)
              THEN r_warnings \o <<"original", "translation">>
              ELSE Append(r_warnings, "original")
    /\ c_call' = CompositorCall("original")
    /\ comp_calls' = Append(comp_calls, CompositorCall("original"))
    /\ cpc' = "outline"
    /\ rpc' = "draw_original"
    /\ UNCHANGED <<r_call, current_settings, img_size, font_original,
                   font_translation, r_ret, canvas, files, notRendererVars>>

\* Lines 298-302: the draw of the translated text begins.
RenderDrawTranslation ==
    /\ rpc = "draw_original"
    /\ cpc = "returned"
    /\ Truthy(r_call.translated_text)
    /\ c_call' = CompositorCall("translation")
    /\ comp_calls' = Append(comp_calls, CompositorCall("translation"))
    /\ cpc' = "outline"
    /\ rpc' = "draw_translation"
    /\ UNCHANGED <<r_call, current_settings, img_size, font_original,
                   font_translation, r_warnings, r_ret, canvas, files,
                   notRendererVars>>

\* Fault variant: the image is saved after the draw of the original text.
RenderDrawn_skips_translation ==
    /\ cpc = "returned"
    /\ rpc \in {"draw_original", "draw_translation"}
    /\ cpc' = "idle"
    /\ rpc' = "save"
    /\ UNCHANGED <<r_call, current_settings, img_size, font_original,
                   font_translation, comp_calls, r_warnings, r_ret, c_call,
                   canvas, files, notRendererVars>>

\* The last draw has returned.
RenderDrawn ==
    /\ cpc = "returned"
    /\ \/ rpc = "draw_translation"
       \/ rpc = "draw_original" /\ ~Truthy(r_call.translated_text)
    /\ cpc' = "idle"
    /\ rpc' = "save"
    /\ UNCHANGED <<r_call, current_settings, img_size, font_original,
                   font_translation, comp_calls, r_warnings, r_ret, c_call,
                   canvas, files, notRendererVars>>

\* A draw raised: caught at lines 315-319.
RenderDrawRaised ==
    /\ rpc \in {"draw_original", "draw_translation"}
    /\ cpc = "raised"
    /\ cpc' = "idle"
    /\ r_ret' = RetNone
    /\ rpc' = "done"
    /\ UNCHANGED <<r_call, current_settings, img_size, font_original,
                   font_translation, comp_calls, r_warnings, c_call, canvas,
                   files, notRendererVars>>

\* Lines 304-310: the image is saved, replacing a file of the same name.
RenderSave ==
    /\ rpc = "save"
    /\ files' = [f \in (DOMAIN files) \cup {OutputPath} |->
                    IF f = OutputPath THEN canvas ELSE files[f]]
    /\ r_ret' = RetPath(OutputPath)
    /\ rpc' = "done"
    /\ UNCHANGED <<r_call, current_settings, img_size, font_original,
                   font_translation, comp_calls, r_warnings, c_call, canvas,
                   cpc, notRendererVars>>

\* os.makedirs or image.save raises: caught at lines 315-319.
RenderSaveFails ==
    /\ rpc = "save"
    /\ r_ret' = RetNone
    /\ rpc' = "done"
    /\ UNCHANGED <<r_call, current_settings, img_size, font_original,
                   font_translation, comp_calls, r_warnings, c_call, canvas,
                   cpc, files, notRendererVars>>

RendererStep ==
    \/ RenderSetup
    \/ RenderUnknownResolution
    \/ RenderFontFailure
    \/ RenderLayout
    \/ RenderDrawTranslation
    \/ RenderDrawn
    \/ RenderDrawRaised
    \/ RenderSave
    \/ RenderSaveFails

(***************************************************************************)
(* sanitize_filename (core/utils.py)                                       *)
(***************************************************************************)
\* The characters line 30 removes (its control characters are not in the
\* alphabet of the texts here).
IllegalChars == {"<", ">", ":", "\"", "/", "\\", "|", "?", "*"}

\* re.sub(r"^\[[^\]]+\]", "", text): a leading tag is removed.
StripLeadingTag(text) ==
    LET k == FirstClose(text)
    IN  IF Len(text) >= 1 /\ text[1] = "[" /\ k >= 3
        THEN SubSeq(text, k + 1, Len(text))
        ELSE text

\* re.sub(r'\s+', '_', s): each run of whitespace becomes one underscore.
RECURSIVE CollapseSpaces(_)
CollapseSpaces(s) ==
    IF s = <<>> THEN <<>>
    ELSE IF IsSpace(Head(s))
         THEN <<"_">> \o CollapseSpaces(lstrip(s))
         ELSE <<Head(s)>> \o CollapseSpaces(Tail(s))

sanitize_filename(text) ==
    LET name_part == strip(StripLeadingTag(text))
        legal == SelectSeq(name_part, LAMBDA c : c \notin IllegalChars)
        joined == CollapseSpaces(legal)
        sanitized == IF Len(joined) > 100 THEN SubSeq(joined, 1, 100) ELSE joined
    IN  IF name_part = <<>> THEN <<"untitled_subtitle">>
        ELSE IF sanitized = <<>> THEN <<"sanitized_empty_subtitle">>
        ELSE sanitized

(***************************************************************************)
(* process_subtitles (main.py)                                             *)
(***************************************************************************)
\* A dict without one key: del d[key].
Without(d, key) == [k \in (DOMAIN d) \ {key} |-> d[k]]

\* The nested update of lines 38-39 and 41-42: the effects dict is the one
\* DEFAULT_SETTINGS holds, since DEFAULT_SETTINGS.copy() is shallow.
NestedUpdate(defaults, custom, key) ==
    IF key \in DOMAIN custom /\ key \in DOMAIN defaults
    THEN [defaults EXCEPT ![key] = Merge(@, custom[key])]
    ELSE defaults

DefaultsAfterPrepare ==
    IF custom_settings = EmptyDict
    THEN DEFAULT_SETTINGS
    ELSE NestedUpdate(NestedUpdate(DEFAULT_SETTINGS, custom_settings,
                                   "effects_original"),
                      custom_settings, "effects_translation")

\* custom_settings after the del statements of lines 40 and 43.
CustomAfterPrepare ==
    IF custom_settings = EmptyDict
    THEN custom_settings
    ELSE Without(Without(custom_settings, "effects_original"),
                 "effects_translation")

notBatchVars ==
    <<parserVars, fonts_loadable, font_metrics, files, compositorVars,
      current_settings, img_size, font_original, font_translation,
      r_warnings, r_ret, sessionVars, guiVars, genVars>>

\* Lines 12-14.
BatchFileMissing ==
    /\ bpc = "start"
    /\ ~file_exists
    /\ bpc' = "done"
    /\ UNCHANGED <<custom_settings, parsed_entries, render_settings,
                   entry_index, rendered, reports, DEFAULT_SETTINGS, r_call,
                   comp_calls, rpc, notBatchVars>>

\* Line 17: parse_subtitle_file is called.
BatchCallParser ==
    /\ bpc = "start"
    /\ file_exists
    /\ ppc = "idle"
    /\ ppc' = "open"
    /\ bpc' = "parsing"
    /\ UNCHANGED <<file_exists, lines, line_number, subtitles, last_base_tag,
                   temp_original_text, temp_full_tag_original, warnings,
                   read_failed, result, pending_line, entry_lines>>
    /\ UNCHANGED <<envVars, compositorVars, rendererVars, custom_settings,
                   parsed_entries, render_settings, entry_index, rendered,
                   reports, sessionVars, guiVars, genVars>>

\* Lines 19-21.
BatchNoEntries ==
    /\ bpc = "parsing"
    /\ ppc = "done"
    /\ result = <<>>
    /\ bpc' = "done"
    /\ UNCHANGED <<custom_settings, parsed_entries, render_settings,
                   entry_index, rendered, reports, DEFAULT_SETTINGS, r_call,
                   comp_calls, rpc, notBatchVars>>

\* Lines 24-30: the output directory is missing and cannot be created.
BatchMkdirFails ==
    /\ bpc = "parsing"
    /\ ppc = "done"
    /\ result # <<>>
    /\ bpc' = "done"
    /\ UNCHANGED <<custom_settings, parsed_entries, render_settings,
                   entry_index, rendered, reports, DEFAULT_SETTINGS, r_call,
                   comp_calls, rpc, notBatchVars>>

\* Lines 23-44: the settings of the renderer are prepared.
BatchPrepare ==
    /\ bpc = "parsing"
    /\ ppc = "done"
    /\ result # <<>>
    /\ parsed_entries' = result
    /\ DEFAULT_SETTINGS' = DefaultsAfterPrepare
    /\ custom_settings' = CustomAfterPrepare
    /\ render_settings' = Merge(DefaultsAfterPrepare, CustomAfterPrepare)
    /\ entry_index' = 0
    /\ bpc' = "loop"
    /\ UNCHANGED <<rendered, reports, r_call, comp_calls, rpc, notBatchVars>>

\* Lines 47-73: the next entry goes to render_subtitle_image (or is skipped,
\* for want of an original text).
BatchRenderCall ==
    /\ bpc = "loop"
    /\ entry_index < Len(parsed_entries)
    /\ LET entry == parsed_entries[entry_index + 1]
       IN  IF ~Truthy(entry.original_text)
           THEN /\ entry_index' = entry_index + 1
                /\ UNCHANGED <<r_call, comp_calls, rpc, rendered, bpc>>
           ELSE /\ r_call' =
                     [original_text |-> entry.original_text,
                      translated_text |-> entry.translated_text,
                      filename_base |->
                          sanitize_filename(MkLine(entry.full_tag_original,
                                                   entry.original_text)),
                      settings |-> render_settings]
                /\ comp_calls' = <<>>
                /\ rpc' = "start"
                /\ rendered' = Append(rendered, entry_index + 1)
                /\ bpc' = "rendering"
                /\ UNCHANGED entry_index
    /\ UNCHANGED <<custom_settings, parsed_entries, render_settings, reports,
                   DEFAULT_SETTINGS, notBatchVars>>

\* Fault variant: the loop passes over the entry after the one rendered.
BatchRenderReturn_skips_entry ==
    /\ bpc = "rendering"
    /\ rpc = "done"
    /\ reports' = Append(reports, [entry |-> entry_index + 1, ok |-> r_ret.ok])
    /\ entry_index' =
          IF entry_index + 2 <= Len(parsed_entries)
          THEN entry_index + 2
          ELSE entry_index + 1
    /\ rpc' = "idle"
    /\ bpc' = "loop"
    /\ UNCHANGED <<custom_settings, parsed_entries, render_settings, rendered,
                   DEFAULT_SETTINGS, r_call, comp_calls, notBatchVars>>

\* Fault variant: a failed render ends the loop.
BatchRenderReturn_abort_on_failure ==
    /\ bpc = "rendering"
    /\ rpc = "done"
    /\ reports' = Append(reports, [entry |-> entry_index + 1, ok |-> r_ret.ok])
    /\ entry_index' = entry_index + 1
    /\ rpc' = "idle"
    /\ bpc' = IF r_ret.ok THEN "loop" ELSE "done"
    /\ UNCHANGED <<custom_settings, parsed_entries, render_settings, rendered,
                   DEFAULT_SETTINGS, r_call, comp_calls, notBatchVars>>

\* Lines 75-78: the outcome of the call is reported.
BatchRenderReturn ==
    /\ bpc = "rendering"
    /\ rpc = "done"
    /\ reports' = Append(reports, [entry |-> entry_index + 1, ok |-> r_ret.ok])
    /\ entry_index' = entry_index + 1
    /\ rpc' = "idle"
    /\ bpc' = "loop"
    /\ UNCHANGED <<custom_settings, parsed_entries, render_settings, rendered,
                   DEFAULT_SETTINGS, r_call, comp_calls, notBatchVars>>

\* Line 80.
BatchDone ==
    /\ bpc = "loop"
    /\ entry_index = Len(parsed_entries)
    /\ bpc' = "done"
    /\ UNCHANGED <<custom_settings, parsed_entries, render_settings,
                   entry_index, rendered, reports, DEFAULT_SETTINGS, r_call,
                   comp_calls, rpc, notBatchVars>>

BatchStep ==
    \/ BatchFileMissing
    \/ BatchCallParser
    \/ BatchNoEntries
    \/ BatchMkdirFails
    \/ BatchPrepare
    \/ BatchRenderCall
    \/ BatchRenderReturn
    \/ BatchDone

(***************************************************************************)
(* Initial values of each part while it is not running.                    *)
(***************************************************************************)
NoFont == [ok |-> FALSE, path |-> "", size |-> 0]

\* The font back ends: every font with the same metrics, or the configured
\* font with metrics of its own.
FontBackEnds ==
    {[f \in FontPaths |-> m] : m \in GlyphMetrics}
        \cup {[f \in FontPaths |->
                 IF f = "custom.ttf"
                 THEN [l |-> 1, t |-> 3, cw |-> 5, h |-> 1]
                 ELSE [l |-> 0, t |-> 0, cw |-> 50, h |-> 20]]}

ParserIdle ==
    /\ file_exists = FALSE
    /\ lines = <<>>
    /\ ppc = "idle"
    /\ ParserLocalsInit

CompositorIdle ==
    /\ c_call = NoCompositorCall
    /\ canvas = <<>>
    /\ cpc = "idle"

RendererIdle ==
    /\ r_call = NoRenderCall
    /\ current_settings = EmptyDict
    /\ img_size = <<0, 0>>
    /\ font_original = NoFont
    /\ font_translation = NoFont
    /\ comp_calls = <<>>
    /\ r_warnings = <<>>
    /\ rpc = "idle"
    /\ r_ret = RetNone

BatchIdle ==
    /\ custom_settings = EmptyDict
    /\ parsed_entries = <<>>
    /\ render_settings = EmptyDict
    /\ entry_index = 0
    /\ rendered = <<>>
    /\ reports = <<>>
    /\ bpc = "idle"

SessionIdle ==
    /\ spc = "idle"
    /\ render_log = <<>>
    /\ s_ops = 0

\* No image has been given to the preview label.
NoImage == [shown |-> FALSE]

\* No window has been made.
GuiIdle ==
    /\ gui_settings = EmptyDict
    /\ label_drawn = FALSE
    /\ after_pending = 0
    /\ label_image = NoImage
    /\ label_text = ""
    /\ gpc = "idle"

\* A status text: what it says and, for a progress text, the entry it names.
Status(msg, n) == [msg |-> msg, n |-> n]

\* No generation run has been started.
GenIdle ==
    /\ subtitle_file_path = ""
    /\ generate_button = "normal"
    /\ status_label = Status("ready", 0)
    /\ workers = <<>>
    /\ after_queue = <<>>

\* The module-level state at import, with every font loadable.
EnvDefault ==
    /\ DEFAULT_SETTINGS = DefaultSettings
    /\ fonts_loadable = FontPaths
    /\ font_metrics = [f \in FontPaths |-> [l |-> 0, t |-> 0, cw |-> 50, h |-> 20]]
    /\ files = EmptyDict

(***************************************************************************)
(* SpecParser: one call of parse_subtitle_file on any script.              *)
(***************************************************************************)
InitParser ==
    /\ file_exists \in BOOLEAN
    /\ lines \in (IF file_exists THEN Scripts ELSE {<<>>})
    /\ ppc = "open"
    /\ ParserLocalsInit
    /\ EnvDefault
    /\ CompositorIdle
    /\ RendererIdle
    /\ BatchIdle
    /\ SessionIdle
    /\ GuiIdle
    /\ GenIdle

NextParser == ParserStep

SpecParser == InitParser /\ [][NextParser]_vars

(***************************************************************************)
(* SpecCompositor: one call of draw_text_with_effects.                     *)
(***************************************************************************)
\* Effects dicts a caller may pass: the defaults, none, gradients, colours
\* given as RGB, colours that are no colour, effects switched on with a zero
\* width or offset.
EffectsPresets ==
    {DefaultSettings.effects_original,
     EmptyDict,
     [gradient_on |-> TRUE],
     Merge(DefaultSettings.effects_original, [gradient_on |-> TRUE]),
     [gradient_on |-> TRUE, shadow_on |-> TRUE, shadow_offset_x |-> 2],
     [outline_on |-> TRUE, outline_width |-> 1, outline_color |-> <<1, 2>>],
     [shadow_on |-> TRUE, shadow_offset_y |-> 1, shadow_color |-> <<1, 2>>],
     [gradient_on |-> TRUE, gradient_color_start |-> <<1, 2>>],
     [outline_on |-> TRUE, outline_width |-> 1, outline_color |-> <<9, 9, 9>>,
      shadow_on |-> TRUE, shadow_offset_y |-> 1, shadow_color |-> <<8, 8, 8>>,
      gradient_on |-> TRUE, gradient_color_start |-> <<0, 0, 0>>,
      gradient_color_end |-> <<255, 255, 255>>],
     [outline_on |-> TRUE, outline_width |-> 0, shadow_on |-> TRUE],
     [outline_on |-> TRUE, outline_width |-> 3],
     [outline_on |-> TRUE, outline_width |-> -1],
     [outline_on |-> FALSE, outline_width |-> 2]}

RunTexts == {<<>>, <<"x">>, <<"x", "y">>}

RunPositions == {<<10, 690>>, <<0, 0>>, <<-2, 5>>}

FillColors == {<<255, 255, 0, 255>>, <<1, 2, 3>>, <<1, 2>>}

InitCompositor ==
    /\ ParserIdle
    /\ RendererIdle
    /\ BatchIdle
    /\ SessionIdle
    /\ GuiIdle
    /\ GenIdle
    /\ DEFAULT_SETTINGS = DefaultSettings
    /\ fonts_loadable = FontPaths
    /\ font_metrics \in FontBackEnds
    /\ files = EmptyDict
    /\ c_call \in [role : {"original"},
                   text : RunTexts,
                   position : RunPositions,
                   font : {get_font(f, 60) : f \in {"custom.ttf", "arial.ttf"}},
                   fill_color : FillColors,
                   effects : EffectsPresets]
    /\ canvas = <<>>
    /\ cpc = "outline"

NextCompositor == CompositorStep

SpecCompositor == InitCompositor /\ [][NextCompositor]_vars

(***************************************************************************)
(* SpecRender: one call of render_subtitle_image.                          *)
(***************************************************************************)
\* Settings a caller may pass: presets known and unknown, every alignment
\* and an unknown one, anchors, a configured font, effects.
RenderEffectsOverrides ==
    {EmptyDict,
     [effects_original |-> [gradient_on |-> TRUE],
      effects_translation |-> EmptyDict],
     [effects_original |->
         [outline_on |-> TRUE, outline_width |-> 1, outline_color |-> <<1, 2>>]]}

RenderSettingsSet ==
    {EmptyDict} \cup
    {Merge([resolution |-> r,
            text_align |-> a,
            custom_x_original |-> p[1],
            custom_y_original |-> p[2],
            custom_x_translation |-> 7,
            custom_y_translation |-> 30,
            font_path_original |-> f], e) :
        r \in {"720p", "1080p", "4k"},
        a \in {"left", "center", "right", "custom_xy"},
        p \in {<<10, 10>>, <<0, 0>>, <<640, 800>>},
        f \in {"custom.ttf", "arial.ttf"},
        e \in RenderEffectsOverrides}

InitRender ==
    /\ ParserIdle
    /\ CompositorIdle
    /\ BatchIdle
    /\ SessionIdle
    /\ GuiIdle
    /\ GenIdle
    /\ DEFAULT_SETTINGS = DefaultSettings
    /\ fonts_loadable \in {FontPaths, {"arial.ttf", "DejaVuSans.ttf"},
                          {"DejaVuSans.ttf"}, {"custom.ttf"}, {}}
    /\ font_metrics \in FontBackEnds
    /\ files = EmptyDict
    /\ r_call \in [original_text : {<<"x">>},
                   translated_text : {None, <<>>, <<"y", "y">>},
                   filename_base : {<<"x">>},
                   settings : RenderSettingsSet]
    /\ current_settings = EmptyDict
    /\ img_size = <<0, 0>>
    /\ font_original = NoFont
    /\ font_translation = NoFont
    /\ comp_calls = <<>>
    /\ r_warnings = <<>>
    /\ rpc = "start"
    /\ r_ret = RetNone

NextRender ==
    \/ RendererStep
    \/ CompositorStep

SpecRender == InitRender /\ [][NextRender]_vars

(***************************************************************************)
(* Spec: one call of process_subtitles, with the calls it makes.           *)
(***************************************************************************)
MaxBatchLines == 3

BatchLines ==
    {MkLine(<<"a">>, <<"x">>), MkLine(<<"b">>, <<"x">>),
     MkLine(<<"a">> \o ch, <<" ", "y">>), <<" ">>}

BatchScripts ==
    UNION {[1..n -> BatchLines] : n \in 0..MaxBatchLines}

\* Settings the caller of process_subtitles may pass (None is the empty dict).
BatchCustoms ==
    {EmptyDict,
     [resolution |-> "720p", text_align |-> "left",
      custom_x_original |-> 10, custom_y_original |-> 10,
      effects_original |-> [gradient_on |-> TRUE]],
     [resolution |-> "4k"],
     [font_color_translation |-> <<1, 2>>, font_path_original |-> "custom.ttf"]}

Init ==
    /\ file_exists \in BOOLEAN
    /\ lines \in (IF file_exists THEN BatchScripts ELSE {<<>>})
    /\ ppc = "idle"
    /\ ParserLocalsInit
    /\ DEFAULT_SETTINGS = DefaultSettings
    /\ fonts_loadable \in {FontPaths, {}}
    /\ font_metrics \in {[f \in FontPaths |-> m] :
                            m \in {[l |-> 0, t |-> 0, cw |-> 50, h |-> 20],
                                   [l |-> 0, t |-> 4, cw |-> 0, h |-> 20]}}
    /\ files = EmptyDict
    /\ CompositorIdle
    /\ RendererIdle
    /\ custom_settings \in BatchCustoms
    /\ parsed_entries = <<>>
    /\ render_settings = EmptyDict
    /\ entry_index = 0
    /\ rendered = <<>>
    /\ reports = <<>>
    /\ bpc = "start"
    /\ SessionIdle
    /\ GuiIdle
    /\ GenIdle

\* The existence of the script is checked before parse_subtitle_file is
\* called, so OpenMissing is no step of a batch.
Next ==
    \/ BatchStep
    \/ OpenFile
    \/ ReadError
    \/ LineNoMatch
    \/ LineOriginal
    \/ LineTranslationPaired
    \/ LineTranslationOrphan
    \/ EndOfInput
    \/ RendererStep
    \/ CompositorStep

Spec == Init /\ [][Next]_vars

(***************************************************************************)
(* SpecSession: a process that imports the modules and makes several       *)
(* calls of render_subtitle_image and process_subtitles, one after another.*)
(***************************************************************************)
MaxSessionOps == 3

\* The render calls the process makes itself.
SessionCalls ==
    {[original_text |-> <<"x">>, translated_text |-> None,
      filename_base |-> <<"x">>, settings |-> st] :
        st \in {EmptyDict, [text_align |-> "left"]}}

SessionScripts ==
    {<<MkLine(<<"a">>, <<"x">>), MkLine(<<"a">> \o ch, <<" ", "y">>)>>,
     <<MkLine(<<"a">> \o ch, <<" ", "y">>), <<" ">>, MkLine(<<"a">>, <<"x">>)>>}

SessionCustoms ==
    {[effects_original |-> [gradient_on |-> TRUE]],
     [resolution |-> "4k"],
     [font_color_original |-> <<1, 2>>]}

\* The locals of a call are gone when it returns.
ParserReturned ==
    /\ file_exists' = FALSE
    /\ lines' = <<>>
    /\ ppc' = "idle"
    /\ line_number' = 0
    /\ subtitles' = <<>>
    /\ last_base_tag' = None
    /\ temp_original_text' = None
    /\ temp_full_tag_original' = None
    /\ warnings' = <<>>
    /\ read_failed' = FALSE
    /\ result' = None
    /\ pending_line' = 0
    /\ entry_lines' = <<>>

CompositorReturned ==
    /\ c_call' = NoCompositorCall
    /\ canvas' = <<>>
    /\ cpc' = "idle"

RendererReturned ==
    /\ r_call' = NoRenderCall
    /\ current_settings' = EmptyDict
    /\ img_size' = <<0, 0>>
    /\ font_original' = NoFont
    /\ font_translation' = NoFont
    /\ comp_calls' = <<>>
    /\ r_warnings' = <<>>
    /\ rpc' = "idle"
    /\ r_ret' = RetNone

BatchReturned ==
    /\ custom_settings' = EmptyDict
    /\ parsed_entries' = <<>>
    /\ render_settings' = EmptyDict
    /\ entry_index' = 0
    /\ rendered' = <<>>
    /\ reports' = <<>>
    /\ bpc' = "idle"

\* render_subtitle_image(original_text, translated_text, filename_base,
\* settings) is called.
SessionRenderCall ==
    /\ spc = "ready"
    /\ s_ops < MaxSessionOps
    /\ \E call \in SessionCalls : r_call' = call
    /\ comp_calls' = <<>>
    /\ rpc' = "start"
    /\ spc' = "rendering"
    /\ s_ops' = s_ops + 1
    /\ UNCHANGED <<parserVars, envVars, compositorVars, current_settings,
                   img_size, font_original, font_translation, r_warnings,
                   r_ret, batchVars, render_log, guiVars, genVars>>

\* The call returns; its locals are gone.
SessionRenderReturn ==
    /\ spc = "rendering"
    /\ rpc = "done"
    /\ render_log' =
         Append(render_log, [call |-> r_call, ok |-> r_ret.ok, canvas |-> canvas])
    /\ RendererReturned
    /\ CompositorReturned
    /\ spc' = "ready"
    /\ UNCHANGED <<parserVars, envVars, batchVars, s_ops, guiVars, genVars>>

\* process_subtitles(subtitle_filepath, custom_settings) is called.
SessionBatchCall ==
    /\ spc = "ready"
    /\ s_ops < MaxSessionOps
    /\ \E fe \in BOOLEAN, script \in SessionScripts, custom \in SessionCustoms :
          /\ file_exists' = fe
          /\ lines' = IF fe THEN script ELSE <<>>
          /\ custom_settings' = IF fe THEN custom ELSE EmptyDict
    /\ bpc' = "start"
    /\ spc' = "batch"
    /\ s_ops' = s_ops + 1
    /\ UNCHANGED <<line_number, subtitles, last_base_tag, temp_original_text,
                   temp_full_tag_original, warnings, ppc, read_failed, result,
                   pending_line, entry_lines>>
    /\ UNCHANGED <<envVars, compositorVars, rendererVars, parsed_entries,
                   render_settings, entry_index, rendered, reports,
                   render_log, guiVars, genVars>>

\* The call returns; its locals and those of the calls it made are gone.
SessionBatchReturn ==
    /\ spc = "batch"
    /\ bpc = "done"
    /\ ParserReturned
    /\ BatchReturned
    /\ RendererReturned
    /\ CompositorReturned
    /\ spc' = "ready"
    /\ UNCHANGED <<envVars, render_log, s_ops, guiVars, genVars>>

SessionStep ==
    \/ SessionRenderCall
    \/ SessionRenderReturn
    \/ SessionBatchCall
    \/ SessionBatchReturn

InitSession ==
    /\ ParserIdle
    /\ CompositorIdle
    /\ RendererIdle
    /\ BatchIdle
    /\ DEFAULT_SETTINGS = DefaultSettings
    /\ fonts_loadable \in {FontPaths, {}}
    /\ font_metrics = [f \in FontPaths |-> [l |-> 0, t |-> 0, cw |-> 50, h |-> 20]]
    /\ files = EmptyDict
    /\ spc = "ready"
    /\ render_log = <<>>
    /\ s_ops = 0
    /\ GuiIdle
    /\ GenIdle

NextSession ==
    \/ SessionStep
    \/ BatchStep
    \/ OpenFile
    \/ ReadError
    \/ LineNoMatch
    \/ LineOriginal
    \/ LineTranslationPaired
    \/ LineTranslationOrphan
    \/ EndOfInput
    \/ RendererStep
    \/ CompositorStep

SpecSession == InitSession /\ [][NextSession]_vars

(***************************************************************************)
(* SpecGui: the window of gui.py, its settings and its preview label.      *)
(***************************************************************************)
MaxPending == 2

notGuiVars ==
    <<parserVars, envVars, compositorVars, rendererVars, batchVars,
      sessionVars, genVars>>

\* The settings the controls of the window write, and the values they take.
GuiKeys == {"font_path_original", "font_path_translation", "text_align"}

GuiValues(key) ==
    IF key = "text_align"
    THEN {"left", "center", "right"}
    ELSE {"arial.ttf", "custom.ttf"}

\* The try block of update_preview raises: a font cannot be loaded.
PreviewRaises(settings) ==
    \/ ~get_font(settings.font_path_original, 60).ok
    \/ ~get_font(settings.font_path_translation, 40).ok

\* update_preview, run with the settings given: while the label has no size
\* it schedules itself again; else it renders the preview and gives it to the
\* label, or, when that raises, calls config(image=None, text=...), in which
\* tkinter leaves out the option that is None: the text is set and the image
\* of the label stays what it was.
UpdatePreview(settings, pending, drawn) ==
    IF ~drawn
    THEN /\ after_pending' = pending + 1
         /\ UNCHANGED <<label_image, label_text>>
    ELSE /\ after_pending' = pending
         /\ IF PreviewRaises(settings)
            THEN /\ label_image' = label_image
                 /\ label_text' = "error"
            ELSE /\ label_image' = [shown |-> TRUE, settings |-> settings]
                 /\ label_text' = label_text

\* A control writes a setting and asks for a preview: update_setting with
\* trigger_preview, or on_align_mode_change.
GuiUpdateSetting ==
    /\ gpc = "running"
    /\ label_drawn \/ after_pending < MaxPending
    /\ \E key \in GuiKeys :
          \E value \in GuiValues(key) :
              /\ gui_settings' = [gui_settings EXCEPT ![key] = value]
              /\ UpdatePreview([gui_settings EXCEPT ![key] = value],
                               after_pending, label_drawn)
    /\ UNCHANGED <<label_drawn, gpc, notGuiVars>>

\* A call scheduled with root.after(100, self.update_preview) runs.
GuiAfterFires ==
    /\ gpc = "running"
    /\ after_pending > 0
    /\ UpdatePreview(gui_settings, after_pending - 1, label_drawn)
    /\ UNCHANGED <<gui_settings, label_drawn, gpc, notGuiVars>>

\* The label gets a size: <Configure> runs update_preview_on_resize.
GuiLabelConfigure ==
    /\ gpc = "running"
    /\ label_drawn' = TRUE
    /\ UpdatePreview(gui_settings, after_pending, TRUE)
    /\ UNCHANGED <<gui_settings, gpc, notGuiVars>>

GuiStep ==
    \/ GuiUpdateSetting
    \/ GuiAfterFires
    \/ GuiLabelConfigure

\* The window as __init__ leaves it: the defaults as settings, one
\* update_preview scheduled.
InitGui ==
    /\ ParserIdle
    /\ CompositorIdle
    /\ RendererIdle
    /\ BatchIdle
    /\ SessionIdle
    /\ DEFAULT_SETTINGS = DefaultSettings
    /\ fonts_loadable \in {FontPaths, {"custom.ttf"}}
    /\ font_metrics = [f \in FontPaths |-> [l |-> 0, t |-> 0, cw |-> 50, h |-> 20]]
    /\ files = EmptyDict
    /\ gui_settings = [font_path_original |-> DefaultSettings.font_path_original,
                       font_path_translation |-> DefaultSettings.font_path_translation,
                       text_align |-> DefaultSettings.text_align]
    /\ label_drawn = FALSE
    /\ after_pending = 1
    /\ label_image = NoImage
    /\ label_text = ""
    /\ gpc = "running"
    /\ GenIdle

NextGui == GuiStep

SpecGui == InitGui /\ [][NextGui]_vars

(***************************************************************************)
(* The generation run of the window (gui.py): start_generation_thread on   *)
(* the Tk thread, generate_images_task on a worker thread, and the         *)
(* callbacks the worker posts to the Tk thread with root.after(0, ...).    *)
(***************************************************************************)
\* The clicks on the button that start a worker.
MaxRuns == 2

\* The longest script chosen in the window, in lines.
MaxGenLines == 2

GenScripts == UNION {[1..n -> BatchLines] : n \in 0..MaxGenLines}

notGenVars ==
    <<envVars, compositorVars, rendererVars, batchVars, sessionVars, guiVars>>

\* A worker thread: where it is in generate_images_task, its parsed_entries
\* and the entries its loop has passed.
NewWorker == [pc |-> "start", entries |-> <<>>, index |-> 0]

\* The thread has ended: the task returned, or an exception left it.
Ended(w) == workers[w].pc \in {"returned", "raised"}

\* A callback posted with root.after(0, ...): one that sets the text of the
\* status label (and may raise when it runs), or one that sets the button
\* to NORMAL.
StatusCallback(msg, n, raises) ==
    [kind |-> "status", text |-> Status(msg, n), raises |-> raises]

ButtonCallback ==
    [kind |-> "button", text |-> Status("", 0), raises |-> FALSE]

\* parse_subtitle_file has returned to the worker: its locals are gone, the
\* list it returned is the worker's, the file stays as it is.
GenParserReturned ==
    /\ ppc' = "idle"
    /\ line_number' = 0
    /\ subtitles' = <<>>
    /\ last_base_tag' = None
    /\ temp_original_text' = None
    /\ temp_full_tag_original' = None
    /\ warnings' = <<>>
    /\ read_failed' = FALSE
    /\ pending_line' = 0
    /\ entry_lines' = <<>>
    /\ UNCHANGED <<file_exists, lines, result>>

\* Fault variant: the button is left enabled while the worker runs.
GenStart_button_left_enabled ==
    /\ generate_button = "normal"
    /\ IF subtitle_file_path = ""
       THEN /\ status_label' = Status("no_file", 0)
            /\ UNCHANGED <<generate_button, workers>>
       ELSE /\ Len(workers) < MaxRuns
            /\ status_label' = Status("generating", 0)
            /\ workers' = Append(workers, NewWorker)
            /\ UNCHANGED generate_button
    /\ UNCHANGED <<subtitle_file_path, after_queue, parserVars, notGenVars>>

\* start_generation_thread, the command of the button (a disabled button
\* takes no click): lines 634-645.
GenStart ==
    /\ generate_button = "normal"
    /\ IF subtitle_file_path = ""
       THEN /\ status_label' = Status("no_file", 0)
            /\ UNCHANGED <<generate_button, workers>>
       ELSE /\ Len(workers) < MaxRuns
            /\ generate_button' = "disabled"
            /\ status_label' = Status("generating", 0)
            /\ workers' = Append(workers, NewWorker)
    /\ UNCHANGED <<subtitle_file_path, after_queue, parserVars, notGenVars>>

\* Lines 652-658: the output directory is missing and cannot be created.
\* The first callback reads e, which is unbound once the except block has
\* been left: it raises NameError when it runs.
GenMkdirFails ==
    \E w \in 1..Len(workers) :
        /\ workers[w].pc = "start"
        /\ after_queue' =
             after_queue \o <<StatusCallback("mkdir_failed", 0, TRUE),
                              ButtonCallback>>
        /\ workers' = [workers EXCEPT ![w].pc = "returned"]
        /\ UNCHANGED <<subtitle_file_path, generate_button, status_label,
                       parserVars, notGenVars>>

\* Line 660: parse_subtitle_file is called.
GenCallParser ==
    \E w \in 1..Len(workers) :
        /\ workers[w].pc = "start"
        /\ ppc = "idle"
        /\ ppc' = "open"
        /\ workers' = [workers EXCEPT ![w].pc = "parsing"]
        /\ result' = None
        /\ UNCHANGED <<file_exists, lines, line_number, subtitles,
                       last_base_tag, temp_original_text,
                       temp_full_tag_original, warnings, read_failed,
                       pending_line, entry_lines>>
        /\ UNCHANGED <<subtitle_file_path, generate_button, status_label,
                       after_queue, notGenVars>>

\* Lines 663-666: the parse gave no entries.
GenNoEntries ==
    \E w \in 1..Len(workers) :
        /\ workers[w].pc = "parsing"
        /\ ppc = "done"
        /\ result = <<>>
        /\ after_queue' =
             after_queue \o <<StatusCallback("no_entries", 0, FALSE),
                              ButtonCallback>>
        /\ workers' = [workers EXCEPT ![w].pc = "returned"]
        /\ GenParserReturned
        /\ UNCHANGED <<subtitle_file_path, generate_button, status_label,
                       notGenVars>>

\* Lines 660-668: the parse gave entries, the loop begins.
GenEntries ==
    \E w \in 1..Len(workers) :
        /\ workers[w].pc = "parsing"
        /\ ppc = "done"
        /\ result # <<>>
        /\ workers' = [workers EXCEPT ![w].pc = "loop", ![w].entries = result]
        /\ GenParserReturned
        /\ UNCHANGED <<subtitle_file_path, generate_button, status_label,
                       after_queue, notGenVars>>

\* Lines 668-698, one pass of the loop or its end. An entry with a text has
\* its progress text posted and is handed to render_subtitle_image with the
\* keyword tags, which that function does not have: the call raises
\* TypeError, nothing in the task catches it, and the thread ends there.
GenLoop ==
    \E w \in 1..Len(workers) :
        /\ workers[w].pc = "loop"
        /\ LET entries == workers[w].entries
               i == workers[w].index
           IN  IF i = Len(entries)
               THEN /\ after_queue' =
                         after_queue \o
                             <<StatusCallback("finished", Len(entries), FALSE),
                               ButtonCallback>>
                    /\ workers' = [workers EXCEPT ![w].pc = "returned"]
               ELSE IF ~Truthy(entries[i + 1].original_text)
               THEN /\ workers' = [workers EXCEPT ![w].index = i + 1]
                    /\ UNCHANGED after_queue
               ELSE /\ after_queue' =
                         Append(after_queue,
                                StatusCallback("progress", i + 1, FALSE))
                    /\ workers' = [workers EXCEPT ![w].pc = "raised"]
        /\ UNCHANGED <<subtitle_file_path, generate_button, status_label,
                       parserVars, notGenVars>>

\* The Tk thread runs the oldest callback posted; one that raises is
\* reported by Tk and changes nothing.
GenAfterFires ==
    /\ after_queue # <<>>
    /\ LET cb == Head(after_queue)
       IN  IF cb.kind = "button"
           THEN /\ generate_button' = "normal"
                /\ UNCHANGED status_label
           ELSE /\ status_label' = IF cb.raises THEN status_label ELSE cb.text
                /\ UNCHANGED generate_button
    /\ after_queue' = Tail(after_queue)
    /\ UNCHANGED <<subtitle_file_path, workers, parserVars, notGenVars>>

GenWorkerStep ==
    \/ GenMkdirFails
    \/ GenCallParser
    \/ GenNoEntries
    \/ GenEntries
    \/ GenLoop

\* The window with or without a script chosen; the script may be missing.
InitGen ==
    /\ file_exists \in BOOLEAN
    /\ lines \in (IF file_exists THEN GenScripts ELSE {<<>>})
    /\ ppc = "idle"
    /\ ParserLocalsInit
    /\ DEFAULT_SETTINGS = DefaultSettings
    /\ fonts_loadable = FontPaths
    /\ font_metrics = [f \in FontPaths |-> [l |-> 0, t |-> 0, cw |-> 50, h |-> 20]]
    /\ files = EmptyDict
    /\ CompositorIdle
    /\ RendererIdle
    /\ BatchIdle
    /\ SessionIdle
    /\ GuiIdle
    /\ subtitle_file_path \in {"", "script.txt"}
    /\ generate_button = "normal"
    /\ status_label = Status("ready", 0)
    /\ workers = <<>>
    /\ after_queue = <<>>

NextGen ==
    \/ GenStart
    \/ GenWorkerStep
    \/ GenAfterFires
    \/ ParserStep

SpecGen == InitGen /\ [][NextGen]_vars

(***************************************************************************)
(* Properties of the parser (checked under SpecParser).                    *)
(***************************************************************************)
\* parse_subtitle_file has returned the list it built.
Parsed == ppc = "done" /\ ~read_failed

\* The entries read, wholly or in part, from line i or line j.
EntriesOf(i, j) ==
    {k \in 1..Len(entry_lines) :
        entry_lines[k].orig \in {i, j} \/ entry_lines[k].trans \in {i, j}}

\* Consecutive lines [T]X, [Tch]Y are at lines i, i+1 of the script.
PairAt(i, T, X, Y) ==
    /\ i + 1 <= Len(lines)
    /\ lines[i] = MkLine(T, X)
    /\ lines[i + 1] = MkLine(T \o ch, Y)

\* They yield exactly one entry, {id: T, original_text: X, translated_text: Y}
\* (X and Y as the grammar trims them).
OneEntryForPair(i, T, X, Y) ==
    \E k \in 1..Len(result) :
        /\ EntriesOf(i, i + 1) = {k}
        /\ result[k].id = T
        /\ result[k].original_text = strip(X)
        /\ result[k].translated_text = strip(Y)

\* C1 as stated: for ANY tag T and non-empty texts X, Y, the consecutive
\* lines [T]X, [Tch]Y yield exactly one entry with id T, original_text X and
\* translated_text Y.
C1_PairAnyTag ==
    Parsed =>
        \A i \in 1..Len(lines) : \A T \in Tags : \A X \in Texts : \A Y \in Texts :
            PairAt(i, T, X, Y) => OneEntryForPair(i, T, X, Y)

\* C1 amended: for any tag T that does not end with "ch" and non-empty texts
\* X, Y, the consecutive lines [T]X, [Tch]Y yield exactly one entry with
\* id T, original_text X and translated_text Y.
C1_PairYieldsOneEntry ==
    Parsed =>
        \A i \in 1..Len(lines) : \A T \in Tags : \A X \in Texts : \A Y \in Texts :
            (PairAt(i, T, X, Y) /\ ~endswith(T, ch))
                => OneEntryForPair(i, T, X, Y)

\* A script with the pair [a]x, [ach] y has been parsed.
C1_Witness ==
    /\ Parsed
    /\ \E i \in 1..Len(lines) : PairAt(i, <<"a">>, <<"x">>, <<" ", "y">>)
    /\ Len(result) >= 2

\* Entry k joins an original line and a translation line of the same base tag.
PairedRoles(k) ==
    LET o == parse_subtitle_line(lines[entry_lines[k].orig])
        t == parse_subtitle_line(lines[entry_lines[k].trans])
    IN  /\ o.ok /\ ~o.is_translation
        /\ t.ok /\ t.is_translation
        /\ o.base_tag = t.base_tag

LoneAt(i, T, X) ==
    /\ lines[i] = MkLine(T, X)
    /\ (i = Len(lines) \/ lines[i + 1] \in OtherLines)

StandaloneFor(i, T, X) ==
    \E k \in 1..Len(result) :
        /\ EntriesOf(i, i) = {k}
        /\ result[k] = [id |-> T,
                        full_tag_original |-> T,
                        original_text |-> strip(X),
                        translated_text |-> None,
                        full_tag_translation |-> None]

\* C3 as stated: a lone line [T]X followed by a blank line, a non-conforming
\* line or the end of input yields exactly one entry with id T,
\* original_text X and translated_text None, for every T.
C3_LoneAnyTag ==
    Parsed =>
        \A i \in 1..Len(lines) : \A T \in Tags : \A X \in Texts :
            LoneAt(i, T, X) => StandaloneFor(i, T, X)

\* C3 amended: a lone line [T]X whose tag T does not end with "ch", followed
\* by a blank line, a non-conforming line or the end of input, yields exactly
\* one entry with id T, original_text X and translated_text None; a pending
\* original is never lost at end of input.
C3_LoneYieldsStandalone ==
    Parsed =>
        \A i \in 1..Len(lines) : \A T \in Tags : \A X \in Texts :
            (LoneAt(i, T, X) /\ ~endswith(T, ch)) => StandaloneFor(i, T, X)

\* The script ends with a pending original, which the return flushed.
C3_Witness ==
    /\ Parsed
    /\ Len(lines) >= 2
    /\ LoneAt(Len(lines), <<"b">>, <<" ", "y">>)
    /\ result[Len(result)].id = <<"b">>

\* C4: a translation line that arrives when the pending slot is empty or
\* holds another BaseTag adds no entry, produces exactly one orphan report and
\* does not stop the parse.
C4_OrphanStep ==
    LET p == parse_subtitle_line(CurLine)
    IN  (/\ InLoop
         /\ line_number' = line_number + 1
         /\ p.ok
         /\ p.is_translation
         /\ (~PendingOccupied \/ last_base_tag # p.base_tag))
        => /\ subtitles' = subtitles
           /\ warnings' = Append(warnings, line_number + 1)
           /\ ppc' = "loop"

C4_OrphanReportedAndSkipped == [][C4_OrphanStep]_vars

\* An orphan was reported, and a later line still produced an entry.
C4_Witness ==
    /\ Parsed
    /\ Len(warnings) = 1
    /\ \E k \in 1..Len(result) : entry_lines[k].orig > warnings[1]

IsPrefix(s, t) == Len(s) <= Len(t) /\ SubSeq(t, 1, Len(s)) = s

\* The entries are in the order of their original lines.
OrderedByInput ==
    \A k1 \in 1..Len(entry_lines) : \A k2 \in 1..Len(entry_lines) :
        k1 < k2 => entry_lines[k1].orig < entry_lines[k2].orig

\* C5: the entries are ordered by the input position of their original lines,
\* and an entry once emitted is never reordered or removed while later lines
\* are processed; the list returned is the list so built.
C5_Step ==
    /\ IsPrefix(subtitles, subtitles')
    /\ OrderedByInput'
    /\ Len(entry_lines') = Len(subtitles')
    /\ (ppc' = "done" /\ ~read_failed') => result' = subtitles'

C5_StableInputOrder == [][C5_Step]_vars

\* Three entries were returned.
C5_Witness == Parsed /\ Len(result) >= 3

\* C6: when the script cannot be read (missing file, or an error raised at any
\* line while iterating), the empty list is returned, whatever was accumulated.
C6_NoPartialParse ==
    (ppc = "done" /\ read_failed) => result = <<>>

\* The read failed at the third line, after an entry had been accumulated.
C6_Witness ==
    /\ ppc = "done" /\ read_failed
    /\ line_number = 2 /\ Len(subtitles) >= 1
    /\ result = <<>>

(***************************************************************************)
(* Properties of render_subtitle_image and draw_text_with_effects.         *)
(***************************************************************************)
\* The measured ink size of the text of a call to draw_text_with_effects.
InkWidthOf(c) == textbbox(c.text, c.font)[3] - textbbox(c.text, c.font)[1]

InkHeightOf(c) == textbbox(c.text, c.font)[4] - textbbox(c.text, c.font)[2]

CanvasHeight == RESOLUTIONS[current_settings.resolution][2]

C8_HorizontalPlacement ==
    \A n \in 1..Len(comp_calls) :
        LET c == comp_calls[n]
            ax == RoleAnchor(c.role)[1]
            w == InkWidthOf(c)
            x == c.position[1]
            align == current_settings.text_align
        IN  /\ align = "left" => x = ax
            /\ align = "right" => x = ax - w
            /\ align = "center" => (2 * x - (2 * ax - w)) \in -2..2
            /\ (/\ current_settings.resolution = "720p"
                /\ align = "left"
                /\ RoleAnchor(c.role) = <<10, 10>>
                /\ w = 50
                /\ InkHeightOf(c) = 20) => c.position = <<10, 690>>

\* A centred text of odd width at anchor 0: the integer conversion of -5/2.
C8_Witness ==
    /\ rpc = "done"
    /\ r_ret.ok
    /\ current_settings.text_align = "center"
    /\ comp_calls[1].role = "original"
    /\ RoleAnchor("original")[1] = 0
    /\ InkWidthOf(comp_calls[1]) = 5
    /\ comp_calls[1].position[1] = -2

LayerRank(layer) ==
    CASE layer = "outline" -> 1
      [] layer = "shadow" -> 2
      [] layer = "fill" -> 3

\* C9: in a run of draw_text_with_effects that returns, the draw operations
\* come in the order outline stamps, shadow, fill, and the last of them is
\* the fill, whichever effects are enabled.
C9_FillDrawnLast ==
    (cpc = "returned" /\ canvas # <<>>) =>
        /\ \A i, j \in 1..Len(canvas) :
              i < j => LayerRank(canvas[i].layer) <= LayerRank(canvas[j].layer)
        /\ canvas[Len(canvas)].layer = "fill"

\* C10: a render call that fails returns None and leaves the loop of
\* process_subtitles where it was; the failure is reported for that entry and
\* the loop goes on; when the batch ends, render_subtitle_image has been
\* called for every parsed entry and each has its report.
C10_Step ==
    /\ (bpc = "rendering" /\ rpc # "done" /\ rpc' = "done" /\ ~r_ret'.ok) =>
          /\ r_ret' = RetNone
          /\ bpc' = "rendering"
          /\ UNCHANGED <<parsed_entries, entry_index, rendered, reports>>
    /\ (bpc = "rendering" /\ rpc = "done" /\ ~r_ret.ok /\ bpc' # bpc) =>
          /\ reports' = Append(reports, [entry |-> entry_index + 1, ok |-> FALSE])
          /\ entry_index' = entry_index + 1
          /\ bpc' = "loop"
    /\ (bpc' = "done" /\ parsed_entries' # <<>>) =>
          /\ rendered' = [i \in 1..Len(parsed_entries') |-> i]
          /\ Len(reports') = Len(parsed_entries')
          /\ \A i \in 1..Len(reports') : reports'[i].entry = i

C10_RenderFailureIsPerEntry == [][C10_Step]_vars

\* Of three entries the second failed and the first and third were saved.
C10_Witness ==
    /\ bpc = "done"
    /\ Len(parsed_entries) = 3
    /\ Len(reports) = 3
    /\ reports[1].ok
    /\ ~reports[2].ok
    /\ reports[3].ok

(***************************************************************************)
(* Properties of the error handling of a render.                           *)
(***************************************************************************)
UnknownResolution(settings) ==
    /\ "resolution" \in DOMAIN settings
    /\ settings.resolution \notin DOMAIN RESOLUTIONS

\* C11: an unknown resolution preset aborts the batch: once the settings of
\* the batch name an unknown preset, the loop does not go on to render a
\* second entry.
C11_UnknownResolutionAbortsBatch ==
    UnknownResolution(render_settings) => Len(rendered) <= 1

\* The font file a load of font_path ends with: the configured path, then
\* arial.ttf, then DejaVuSans.ttf; "" when none of them loads.
FirstLoadable(font_path) ==
    IF font_path \in fonts_loadable THEN font_path
    ELSE IF "arial.ttf" \in fonts_loadable THEN "arial.ttf"
    ELSE IF "DejaVuSans.ttf" \in fonts_loadable THEN "DejaVuSans.ttf"
    ELSE ""

\* The render is past its set-up with a known resolution.
PastFontLoading ==
    /\ rpc \notin {"idle", "start"}
    /\ "resolution" \in DOMAIN current_settings
    /\ current_settings.resolution \in DOMAIN RESOLUTIONS

\* C12: a font is loaded from the configured path, else from arial.ttf, else
\* from DejaVuSans.ttf, the first that loads; when all three fail for a font
\* the render call has failed: it returns None, has drawn nothing and has
\* written no image.
C12_FontFallbackChain ==
    PastFontLoading =>
        LET fo == FirstLoadable(current_settings.font_path_original)
            ft == FirstLoadable(current_settings.font_path_translation)
        IN  IF fo = "" \/ ft = ""
            THEN /\ rpc = "done"
                 /\ r_ret = RetNone
                 /\ comp_calls = <<>>
                 /\ canvas = <<>>
                 /\ files = EmptyDict
            ELSE /\ font_original.ok /\ font_original.path = fo
                 /\ font_translation.ok /\ font_translation.path = ft

\* The configured font and arial.ttf did not load, DejaVuSans.ttf did, and the
\* image was drawn with it and saved.
C12_Witness ==
    /\ rpc = "done"
    /\ r_ret.ok
    /\ current_settings.font_path_original = "custom.ttf"
    /\ fonts_loadable = {"DejaVuSans.ttf"}
    /\ font_original.path = "DejaVuSans.ttf"
    /\ comp_calls # <<>>

\* C13: when the font of the original text loads and the entry has no
\* translated text, the finished render has not failed for want of a font: it
\* got as far as drawing, whatever the state of the translation font.
C13_FontFailureOnlyForItsRole ==
    (/\ rpc = "done"
     /\ PastFontLoading
     /\ FirstLoadable(current_settings.font_path_original) # ""
     /\ ~Truthy(r_call.translated_text)) => comp_calls # <<>>

(***************************************************************************)
(* Properties of the output files of a batch.                              *)
(***************************************************************************)
BatchEndedAllSaved ==
    /\ bpc = "done"
    /\ parsed_entries # <<>>
    /\ Len(reports) = Len(parsed_entries)
    /\ \A i \in 1..Len(reports) : reports[i].ok

\* C14: after a batch in which every render call succeeded there are as many
\* output files as entries: no two entries were saved to the same file.
C14_OneImagePerEntry ==
    BatchEndedAllSaved => Cardinality(DOMAIN files) = Len(parsed_entries)

(***************************************************************************)
(* Properties of a process that makes several calls.                       *)
(***************************************************************************)
\* C15: two calls of render_subtitle_image made by one process with the same
\* texts and the same settings argument (the font back end of a process does
\* not change) and both saved, have drawn the same canvas, whatever calls
\* came between them.
C15_RenderDeterministic ==
    \A i, j \in 1..Len(render_log) :
        (/\ render_log[i].call = render_log[j].call
         /\ render_log[i].ok
         /\ render_log[j].ok) => render_log[i].canvas = render_log[j].canvas

(***************************************************************************)
(* Properties of the gradient fill and of runs without ink.                *)
(***************************************************************************)
GradientPastes == {n \in 1..Len(canvas) : canvas[n].rows # <<>>}

\* The value v is within 1 of the exact interpolation of cs and ce at i / D
\* (both sides multiplied by D).
WithinOneOfLerp(v, cs, ce, i, D) ==
    Abs(D * v - (cs * (D - i) + ce * i)) <= D

\* C16: a gradient pasted for an ink box of height H has H rows; row i is,
\* per channel, within the integer conversion of the interpolation of start
\* and end at i / max(1, H - 1); the only row of a box of height 1 is the
\* start colour, and for H >= 2 row 0 is the start and row H - 1 the end
\* colour.
C16_GradientRows ==
    \A n \in GradientPastes :
        LET rows == canvas[n].rows
            H == Len(rows)
        IN  /\ H = InkHeight
            /\ H >= 1
            /\ rows[1] = GradientStart
            /\ H >= 2 => rows[H] = GradientEnd
            /\ \A i \in 0..(H - 1), c \in 1..4 :
                  WithinOneOfLerp(rows[i + 1][c], GradientStart[c],
                                  GradientEnd[c], i, Max(1, H - 1))

\* A gradient of two different colours on an ink box one row high.
C16_Witness ==
    /\ cpc = "returned"
    /\ GradientPastes # {}
    /\ InkHeight = 1
    /\ GradientStart # GradientEnd
    /\ canvas[Len(canvas)].rows = <<GradientStart>>

\* Every colour of the call is an RGB(A) tuple.
ColoursValid ==
    /\ ValidInk(c_call.fill_color)
    /\ ValidInk(OutlineColor)
    /\ ValidInk(ShadowColor)
    /\ ValidInk(GradientStart)
    /\ ValidInk(GradientEnd)

\* C17: a run whose measured ink width or height is <= 0 issues no draw
\* operation (no outline stamp, no shadow, no fill), whatever effects are
\* enabled, and with colours that are colours it raises no error.
C17_NoInkNoDraw ==
    InkEmpty =>
        /\ canvas = <<>>
        /\ ColoursValid => cpc # "raised"

(***************************************************************************)
(* Properties of an unknown alignment.                                     *)
(***************************************************************************)
UnknownAlign ==
    /\ "text_align" \in DOMAIN current_settings
    /\ ~KnownAlign(current_settings.text_align)

\* C18: with an unknown alignment value the layout does not end the render:
\* it goes on to the draws, a warning is reported for each role laid out,
\* and each role is drawn at draw_x = anchor_x, as for left.
C18_Step ==
    /\ (rpc = "layout" /\ UnknownAlign /\ rpc' # rpc) =>
          /\ rpc' = "draw_original"
          /\ r_ret' = r_ret
          /\ "original" \in {r_warnings'[n] : n \in (Len(r_warnings) + 1)..Len(r_warnings')}
          /\ Truthy(r_call.translated_text) =>
                "translation" \in {r_warnings'[n] :
                                     n \in (Len(r_warnings) + 1)..Len(r_warnings')}
    /\ (UnknownAlign /\ comp_calls' # comp_calls /\ comp_calls' # <<>>) =>
          LET c == comp_calls'[Len(comp_calls')]
          IN  c.position[1] = RoleAnchor(c.role)[1]

C18_UnknownAlignFallsBackToLeft == [][C18_Step]_vars

\* Both roles were drawn with an unknown alignment and the image was saved.
C18_Witness ==
    /\ rpc = "done"
    /\ r_ret.ok
    /\ UnknownAlign
    /\ Len(comp_calls) = 2
    /\ comp_calls[1].position[1] = 10
    /\ comp_calls[2].position[1] = 7
    /\ r_warnings = <<"original", "translation">>
    /\ OutputPath \in DOMAIN files

(***************************************************************************)
(* Properties of the preview of the window.                                *)
(***************************************************************************)
\* C19: the image the preview label displays is never one computed from
\* settings older than those of the latest preview request: whenever the label
\* has an image, it is the image of the current settings.
C19_LatestPreviewDisplayed ==
    label_image.shown => label_image.settings = gui_settings

(***************************************************************************)
(* Properties of the parser state across an orphaned translation line.     *)
(***************************************************************************)
\* Line i is an original line with a text: it fills the pending slot.
OriginalLineAt(i) ==
    LET p == parse_subtitle_line(lines[i])
    IN  p.ok /\ ~p.is_translation /\ Truthy(p.text)

\* C20: the step that processes an orphaned translation line leaves the
\* pending slot and the list of entries as they were; so, whatever orphans
\* follow it, each original line with a text has exactly one entry when the
\* parse has ended.
C20_Step ==
    /\ LET p == parse_subtitle_line(CurLine)
       IN  (/\ InLoop
            /\ line_number' = line_number + 1
            /\ p.ok
            /\ p.is_translation
            /\ (~PendingOccupied \/ last_base_tag # p.base_tag))
           => UNCHANGED <<subtitles, temp_original_text, last_base_tag,
                          temp_full_tag_original>>
    /\ (ppc' = "done" /\ ~read_failed') =>
          \A i \in 1..Len(lines) :
              OriginalLineAt(i) =>
                  Cardinality({k \in 1..Len(result') : entry_lines'[k].orig = i}) = 1

C20_OrphanLeavesStateUnchanged == [][C20_Step]_vars

\* An original was pending when an orphan was reported on the next line, and
\* was emitted afterwards as a standalone entry.
C20_Witness ==
    /\ Parsed
    /\ \E k \in 1..Len(result) :
          /\ result[k].translated_text = None
          /\ \E n \in 1..Len(warnings) : warnings[n] = entry_lines[k].orig + 1

(***************************************************************************)
(* Properties of an original line that finds the pending slot occupied.    *)
(***************************************************************************)
\* C21: the step that processes an original line while the slot is occupied
\* appends the pending original as a standalone entry and puts the new line
\* in the slot; so, at the end of a parse, of two original lines in a row
\* (same tag or not) the earlier one has a standalone entry.
C21_Step ==
    /\ LET p == parse_subtitle_line(CurLine)
       IN  (/\ InLoop
            /\ line_number' = line_number + 1
            /\ p.ok
            /\ ~p.is_translation
            /\ PendingOccupied)
           => /\ subtitles' =
                   Append(subtitles,
                          [id |-> last_base_tag,
                           full_tag_original |-> temp_full_tag_original,
                           original_text |-> temp_original_text,
                           translated_text |-> None,
                           full_tag_translation |-> None])
              /\ temp_original_text' = p.text
              /\ last_base_tag' = p.base_tag
              /\ temp_full_tag_original' = p.full_tag
    /\ (ppc' = "done" /\ ~read_failed') =>
          \A i \in 1..(Len(lines) - 1) :
              (OriginalLineAt(i) /\ OriginalLineAt(i + 1)) =>
                  \E k \in 1..Len(result') :
                      /\ entry_lines'[k].orig = i
                      /\ result'[k].translated_text = None
                      /\ result'[k].original_text
                           = parse_subtitle_line(lines[i]).text

C21_OccupiedSlotIsFlushedByOriginal == [][C21_Step]_vars

\* Two originals of one tag in a row and then their translation: the first
\* is emitted alone, the second is the one that is paired.
C21_Witness ==
    /\ Parsed
    /\ \E k \in 1..(Len(result) - 1) :
          /\ result[k].translated_text = None
          /\ result[k + 1].translated_text # None
          /\ result[k].id = result[k + 1].id
          /\ entry_lines[k + 1].orig = entry_lines[k].orig + 1
          /\ entry_lines[k + 1].trans = entry_lines[k].orig + 2

(***************************************************************************)
(* Properties of the calls process_subtitles makes.                        *)
(***************************************************************************)
\* The entries 1..n, in order.
InOrder(n) == [i \in 1..n |-> i]

\* Each call of render_subtitle_image is for the entry after the last one
\* rendered, with its texts.
C22_CallsInParserOrder ==
    (bpc = "loop" /\ bpc' = "rendering") =>
        LET i == Len(rendered) + 1
        IN  /\ rendered' = Append(rendered, i)
            /\ i <= Len(result)
            /\ r_call'.original_text = result[i].original_text
            /\ r_call'.translated_text = result[i].translated_text

\* The statement as given: when process_subtitles returns, the renderer has
\* been called once for each entry of the parser, in order, and not at all
\* if the script is missing or has no entries.
C22_OnceForEachEntry_Step ==
    /\ C22_CallsInParserOrder
    /\ (bpc # "done" /\ bpc' = "done") =>
          rendered' = IF ~file_exists \/ result = <<>>
                      THEN <<>>
                      ELSE InOrder(Len(result))

C22_OnceForEachEntry == [][C22_OnceForEachEntry_Step]_vars

\* C22: when process_subtitles returns, the renderer has been called once for
\* each entry of the parser, in parser order, and not at all if the script is
\* missing, the parse gave no entries, or the output directory could not be
\* created (the return straight after the parse).
C22_Step ==
    /\ C22_CallsInParserOrder
    /\ (bpc # "done" /\ bpc' = "done") =>
          rendered' = IF ~file_exists \/ result = <<>> \/ bpc = "parsing"
                      THEN <<>>
                      ELSE InOrder(Len(result))

C22_OnceForEachEntryUnlessNoDirectory == [][C22_Step]_vars

\* A batch of a pair and a standalone entry has ended: two calls.
C22_Witness ==
    /\ bpc = "done"
    /\ Len(result) = 2
    /\ result[1].translated_text # None
    /\ result[2].translated_text = None
    /\ rendered = <<1, 2>>
    /\ Len(reports) = 2

(***************************************************************************)
(* Properties of the two roles of a render.                                *)
(***************************************************************************)
\* The roles draw_text_with_effects was called for, in order.
RolesDrawn == [n \in 1..Len(comp_calls) |-> comp_calls[n].role]

\* C23: the translation role is laid out and drawn exactly when the entry
\* has a translated text (a non-empty one): its draw starts on the canvas as
\* the draw of the original text left it and only adds to it, so every layer
\* of the translation comes after every layer of the original text; with no
\* translated text the image is saved with the original text alone.
C23_Step ==
    /\ (rpc = "draw_original" /\ rpc' = "draw_translation") =>
          /\ Truthy(r_call.translated_text)
          /\ cpc = "returned"
          /\ canvas' = canvas
          /\ c_call'.role = "translation"
          /\ c_call'.text = r_call.translated_text
          /\ c_call'.position = RolePosition("translation")
    /\ (rpc = "draw_translation" /\ rpc' = "draw_translation") =>
          /\ IsPrefix(canvas, canvas')
          /\ \A n \in (Len(canvas) + 1)..Len(canvas') :
                canvas'[n].role = "translation"
    /\ (rpc = "draw_original" /\ rpc' = "save") =>
          ~Truthy(r_call.translated_text)
    /\ (rpc' = "done" /\ r_ret'.ok) =>
          /\ RolesDrawn' = IF Truthy(r_call.translated_text)
                           THEN <<"original", "translation">>
                           ELSE <<"original">>
          /\ \A i \in 1..Len(canvas') : \A j \in 1..Len(canvas') :
                (canvas'[i].role = "original" /\ canvas'[j].role = "translation")
                    => i < j
          /\ (\E j \in 1..Len(canvas') : canvas'[j].role = "translation")
                => Truthy(r_call.translated_text)

C23_TranslationDrawnWhenPresent == [][C23_Step]_vars

\* An image with both roles was saved: outline, shadow and fill of the
\* original text, then layers of the translation.
C23_Witness ==
    /\ rpc = "done"
    /\ r_ret.ok
    /\ Truthy(r_call.translated_text)
    /\ \E i \in 1..(Len(canvas) - 1) :
          /\ canvas[i].role = "original"
          /\ canvas[i].layer = "fill"
          /\ canvas[i + 1].role = "translation"
          /\ canvas[Len(canvas)].role = "translation"
          /\ canvas[Len(canvas)].layer = "fill"
    /\ \E i \in 1..Len(canvas) :
          canvas[i].role = "original" /\ canvas[i].layer = "outline"

(***************************************************************************)
(* Properties of the outline.                                              *)
(***************************************************************************)
\* The draw operations of the outline layer on the canvas.
OutlineOps == {n \in 1..Len(canvas) : canvas[n].layer = "outline"}

\* The offsets of the square of half-width W that are on its outer ring or
\* at least W - 1 away from its centre.
RingOffsets(W) ==
    {o \in (-W..W) \X (-W..W) :
        \/ Abs(o[1]) = W
        \/ Abs(o[2]) = W
        \/ o[1] * o[1] + o[2] * o[2] >= (W - 1) * (W - 1)}

\* C24: once the outline stage is over, the run has been stamped in the
\* outline colour at each offset of RingOffsets(W), once, and nowhere else,
\* if the outline is on and W > 0; else there is no outline stamp.
C24_OutlineOffsets ==
    cpc \in {"shadow", "fill", "returned"} =>
        LET W == Get(c_call.effects, "outline_width", 0)
            on == Get(c_call.effects, "outline_on", FALSE)
            expected == IF on /\ W > 0 THEN RingOffsets(W) ELSE {}
        IN  /\ {<<canvas[n].x - c_call.position[1],
                  canvas[n].y - c_call.position[2]>> : n \in OutlineOps}
                 = expected
            /\ Cardinality(OutlineOps) = Cardinality(expected)
            /\ \A n \in OutlineOps :
                  canvas[n].color
                    = WithAlpha(Get(c_call.effects, "outline_color",
                                    <<0, 0, 0, 255>>), 255)

\* An outline of width 3 was drawn: 40 stamps, none at the centre or next
\* to it.
C24_Witness ==
    /\ cpc = "returned"
    /\ Get(c_call.effects, "outline_width", 0) = 3
    /\ Cardinality(OutlineOps) = 40
    /\ \E n \in OutlineOps :
          /\ canvas[n].x = c_call.position[1] + 2
          /\ canvas[n].y = c_call.position[2]
    /\ ~\E n \in OutlineOps :
          /\ canvas[n].x = c_call.position[1] + 1
          /\ canvas[n].y = c_call.position[2] + 1

(***************************************************************************)
(* Properties of the tag "ch".                                             *)
(***************************************************************************)
\* Line i is a line with the tag "ch" and a text.
BareChLineAt(i) ==
    LET p == parse_subtitle_line(lines[i])
    IN  p.ok /\ p.full_tag = ch

\* C25: a line whose tag is exactly "ch" is a translation line with the
\* empty base tag; the base tag of the pending slot is never empty, so the
\* step that processes such a line reports an orphan and leaves the entries
\* and the slot as they were, and no entry of the result was read from it.
C25_Step ==
    /\ last_base_tag # <<>>
    /\ LET p == parse_subtitle_line(CurLine)
       IN  (/\ InLoop
            /\ line_number' = line_number + 1
            /\ p.ok
            /\ p.full_tag = ch)
           => /\ p.is_translation
              /\ p.base_tag = <<>>
              /\ warnings' = Append(warnings, line_number + 1)
              /\ UNCHANGED <<subtitles, temp_original_text, last_base_tag,
                             temp_full_tag_original>>
    /\ (ppc' = "done" /\ ~read_failed') =>
          \A i \in 1..Len(lines) :
              BareChLineAt(i) =>
                  /\ \E n \in 1..Len(warnings') : warnings'[n] = i
                  /\ \A k \in 1..Len(result') :
                        /\ entry_lines'[k].orig # i
                        /\ entry_lines'[k].trans # i

C25_BareChIsAlwaysOrphan == [][C25_Step]_vars

\* A "[ch]" line came straight after an original: it was reported, and the
\* original was emitted alone.
C25_Witness ==
    /\ Parsed
    /\ \E i \in 2..Len(lines) :
          /\ BareChLineAt(i)
          /\ OriginalLineAt(i - 1)
          /\ \E n \in 1..Len(warnings) : warnings[n] = i
          /\ \E k \in 1..Len(result) :
                /\ entry_lines[k].orig = i - 1
                /\ result[k].translated_text = None

(***************************************************************************)
(* Counts of lines, entries and reports.                                   *)
(***************************************************************************)
\* Line i is a translation line with a text.
TranslationLineAt(i) ==
    LET p == parse_subtitle_line(lines[i])
    IN  p.ok /\ p.is_translation

OriginalLines == {i \in 1..Len(lines) : OriginalLineAt(i)}

TranslationLines == {i \in 1..Len(lines) : TranslationLineAt(i)}

PairedEntries == {k \in 1..Len(result) : result[k].translated_text # None}

\* C26: after a parse with no read error there are as many entries as
\* original lines, each original line being the source of exactly one, and
\* the paired entries and the orphan reports together are as many as the
\* translation lines.
C26_Counts ==
    Parsed =>
        /\ Len(result) = Cardinality(OriginalLines)
        /\ \A i \in OriginalLines :
              Cardinality({k \in 1..Len(result) : entry_lines[k].orig = i}) = 1
        /\ Cardinality(PairedEntries) + Len(warnings)
             = Cardinality(TranslationLines)

\* One original and two translation lines: one pair and one orphan report.
C26_Witness ==
    /\ Parsed
    /\ Cardinality(OriginalLines) = 1
    /\ Cardinality(TranslationLines) = 2
    /\ Cardinality(PairedEntries) = 1
    /\ Len(warnings) = 1

(***************************************************************************)
(* Properties of the process-wide defaults.                                *)
(***************************************************************************)
\* C27: no step of process_subtitles changes DEFAULT_SETTINGS, its nested
\* effects_original and effects_translation included.
C27_DefaultsUnchanged == [][DEFAULT_SETTINGS' = DEFAULT_SETTINGS]_vars

(***************************************************************************)
(* Properties of a generation run.                                         *)
(***************************************************************************)
\* The texts a run ends with.
FinalStatus ==
    status_label.msg \in {"mkdir_failed", "no_entries", "finished"}

\* Nothing of a run is left to be done: every worker thread has ended and
\* every callback posted to the Tk thread has run. (A run is finite: the
\* parse and the loop are bounded by the script.)
Quiescent ==
    /\ \A w \in 1..Len(workers) : Ended(w)
    /\ after_queue = <<>>

\* C28: once a run that was started has nothing left to do, the button is
\* enabled again and the status label shows a final text.
C28_RunEndsWithButtonEnabled ==
    (workers # <<>> /\ Quiescent) =>
        (generate_button = "normal" /\ FinalStatus)

\* The worker threads that have not ended.
Running == {w \in 1..Len(workers) : ~Ended(w)}

\* C29: at most one worker runs at a time; while one runs the button is
\* disabled, and the callback that enables it is posted by a worker that
\* has returned.
C29_AtMostOneWorker ==
    /\ Cardinality(Running) <= 1
    /\ Running # {} => generate_button = "disabled"
    /\ (\E n \in 1..Len(after_queue) : after_queue[n].kind = "button")
          => /\ Running = {}
             /\ \E w \in 1..Len(workers) : workers[w].pc = "returned"

\* A second worker runs after the first has returned and the button has been
\* enabled again.
C29_Witness ==
    /\ Len(workers) = 2
    /\ workers[1].pc = "returned"
    /\ workers[2].pc = "loop"
    /\ generate_button = "disabled"
    /\ after_queue = <<>>

(***************************************************************************)
(* The form of the entries.                                                *)
(***************************************************************************)
WellFormed(e) ==
    /\ e.original_text # None
    /\ e.original_text # <<>>
    /\ e.id = e.full_tag_original
    /\ \/ e.translated_text = None /\ e.full_tag_translation = None
       \/ /\ e.translated_text # None
          /\ e.translated_text # <<>>
          /\ e.full_tag_translation # None
          /\ e.full_tag_translation # <<>>
          /\ e.full_tag_translation = e.id \o ch

\* C30: every entry of the list being built, and so of the list returned,
\* has a non-empty original_text, an id equal to full_tag_original, and a
\* translated_text and full_tag_translation that are both None or both
\* non-empty, the tag being the id followed by "ch".
C30_EntriesWellFormed ==
    /\ \A k \in 1..Len(subtitles) : WellFormed(subtitles[k])
    /\ ppc = "done" => \A k \in 1..Len(result) : WellFormed(result[k])

\* A pair and a standalone entry were returned.
C30_Witness ==
    /\ Parsed
    /\ Len(result) = 2
    /\ result[1].id = <<"a">>
    /\ result[1].full_tag_translation = <<"a", "c", "h">>
    /\ result[1].translated_text = <<"y">>
    /\ result[2].id = <<"b">>
    /\ result[2].full_tag_translation = None

====
